---- MODULE Spec2Model ----
(***************************************************************************)
(* Model of pylxpweb's local Modbus transport (BaseModbusTransport):       *)
(* register reads with retry and consecutive-error tracking, the           *)
(* consecutive-error reconnect, batched group reads, and write_parameters  *)
(* with coalescing of consecutive addresses.  Tasks are asyncio tasks on   *)
(* one event loop sharing one transport; an action is the code a task runs *)
(* between two suspension points.  Three further parts of the library are *)
(* modelled beside it, each with its own initial states and next-state     *)
(* relation: the network scanner (NetworkScanner.scan and its probe        *)
(* tasks), the cloud client's session and backoff handling around one      *)
(* control call, and the decoding of a raw 16-bit register word.           *)
(***************************************************************************)
EXTENDS Integers, Sequences, FiniteSets, TLC

VARIABLES
    connected,            \* BaseTransport._connected
    lock,                 \* self._lock: the task holding it, or NoTask
    consecutive_errors,   \* self._consecutive_errors
    last_read_retried,    \* self._last_read_retried
    task,                 \* per task: position and locals of the running call
    wire,                 \* frames handed to the client by the running call
    tracing,              \* whether wire is recorded (sequential runs)
    callers,              \* the tasks that invoke calls
    budget,               \* calls and cancellations that may still happen
    seq_started,          \* disconnect-then-connect sequences begun since the
                          \* counter last rose to the threshold
    seq_completed,        \* ... and completed since then
    orphans,              \* exchanges abandoned by a cancelled task whose
                          \* response has neither arrived nor timed out
    scan,                 \* NetworkScanner: its configuration, the locals of
                          \* the running scan() and its probe tasks
    cloud,                \* LuxpowerClient: session, backoff and the call
                          \* in progress
    decode,               \* the decoder: a raw word, its field's declaration
                          \* and the value decoded from it
    inverter              \* an inverter refreshed over the local transport:
                          \* its decoded runtime data and the properties read

vars == <<connected, lock, consecutive_errors, last_read_retried, task, wire,
          tracing, callers, budget, seq_started, seq_completed, orphans, scan,
          cloud, decode, inverter>>

-----------------------------------------------------------------------------
(* Bounds of the model *)

NumTasks == 2
MaxOps == 3
MaxSeqOps == 2
MaxAddr == 4
MaxBatt == 1
MaxShort == 1

(* Program constants *)

Retries == 2
MaxConsecutiveErrors == 3
MaxWords == 40
RetryDelayMs == 500
InterRegisterDelayMs == 50
MaxDelayMs == 1000
BatteryChunk == 64
INDIVIDUAL_BATTERY_BASE_ADDRESS == 5000
INDIVIDUAL_BATTERY_REGISTER_COUNT == 30
INDIVIDUAL_BATTERY_MAX_COUNT == 10
BankVoltageRegister == 4
NoBatteryThreshold == 50
BankVoltageAbsent == -1

Tasks == 1..NumTasks
NoTask == 0

Min(a, b) == IF a < b THEN a ELSE b

RECURSIVE Pow2(_)
Pow2(n) == IF n = 0 THEN 1 ELSE 2 * Pow2(n - 1)

-----------------------------------------------------------------------------
(* Register groups *)

ShuffledGroupOrder ==
    <<"status_energy", "power_energy", "temperatures", "bms_data",
      "extended_data", "output_power">>

GroupOrder ==
    <<"power_energy", "status_energy", "temperatures", "bms_data",
      "extended_data", "output_power">>

INPUT_REGISTER_GROUPS ==
    [g \in {GroupOrder[i] : i \in 1..Len(GroupOrder)} |->
        CASE g = "power_energy"  -> <<0, 32>>
          [] g = "status_energy" -> <<32, 32>>
          [] g = "temperatures"  -> <<64, 16>>
          [] g = "bms_data"      -> <<80, 33>>
          [] g = "extended_data" -> <<113, 18>>
          [] g = "output_power"  -> <<170, 2>>]

MIDBOX_REGISTER_GROUPS ==
    <<(<<0, 40>>), (<<40, 28>>), (<<68, 40>>), (<<108, 12>>), (<<128, 4>>)>>

(* groups = [(name, INPUT_REGISTER_GROUPS[name]) for name in group_names] *)
GroupReads(names) == [i \in 1..Len(names) |-> INPUT_REGISTER_GROUPS[names[i]]]

(* while remaining > 0: chunk_size = min(remaining, 40); read(current, chunk) *)
OneChunk(current_address, remaining) ==
    IF remaining > 0 THEN <<(<<current_address, remaining>>)>> ELSE <<>>

RECURSIVE Chunks(_, _)
Chunks(current_address, remaining) ==
    IF remaining > 0
    THEN LET chunk_size == Min(remaining, MaxWords)
         IN  <<(<<current_address, chunk_size>>)>>
             \o Chunks(current_address + chunk_size, remaining - chunk_size)
    ELSE <<>>

(* count=min(count, 40) in the client call of _read_registers *)
RequestCount(count) == Min(count, MaxWords)

(* {start + offset: value for offset, value in enumerate(values)}: the     *)
(* addresses of the map, values being a list of n words                    *)
RegistersFromValues(start, n) == {start + offset : offset \in 0..(n - 1)}

-----------------------------------------------------------------------------
(* write_parameters: sorting and grouping of consecutive addresses *)

RECURSIVE SortedAddrs(_)
SortedAddrs(S) ==
    IF S = {} THEN <<>>
    ELSE LET m == CHOOSE x \in S : \A y \in S : x <= y
         IN  <<m>> \o SortedAddrs(S \ {m})

(* elif address == current_start + len(current_values) *)
NeverConsecutive(address, current_start, current_values) == FALSE

Consecutive(address, current_start, current_values) ==
    address = current_start + Len(current_values)

(* the for loop over sorted_params; a group is <<start, values>> *)
RECURSIVE GroupLoop(_, _, _, _, _, _)
GroupLoop(P, sorted, i, groups, current_start, current_values) ==
    IF i > Len(sorted)
    THEN IF current_start # -1 /\ current_values # <<>>
         THEN Append(groups, <<current_start, current_values>>)
         ELSE groups
    ELSE LET address == sorted[i]
             value == P[address]
         IN  IF current_start = -1
             THEN GroupLoop(P, sorted, i + 1, groups, address, <<value>>)
             ELSE IF Consecutive(address, current_start, current_values)
             THEN GroupLoop(P, sorted, i + 1, groups, current_start,
                            Append(current_values, value))
             ELSE GroupLoop(P, sorted, i + 1,
                            Append(groups, <<current_start, current_values>>),
                            address, <<value>>)

WriteGroups(P) == GroupLoop(P, SortedAddrs(DOMAIN P), 1, <<>>, -1, <<>>)

(* if len(values) == 1: write_register (FC6) else write_registers (FC16) *)
AlwaysMulti(values) == 16

WriteFunction(values) == IF Len(values) = 1 THEN 6 ELSE 16

WriteFrame(group) ==
    [fc |-> WriteFunction(group[2]), address |-> group[1], values |-> group[2]]

ReadFrame(input, read) ==
    [fc |-> IF input THEN 4 ELSE 3, address |-> read[1],
     count |-> RequestCount(read[2])]

-----------------------------------------------------------------------------
(* Calls a task can invoke, with their arguments *)

NoParams == [a \in {} |-> 0]

Call(op, start, count, include, P) ==
    [op |-> op, start |-> start, count |-> count,
     include_individual |-> include, parameters |-> P]

SmallMaps == {[a \in S |-> 100 + a] : S \in SUBSET (0..MaxAddr)}

Interval(a, n) == [x \in a..(a + n - 1) |-> 100 + x]

LongMaps == {Interval(0, MaxWords), Interval(7, MaxWords + 1)}

ExampleMap == (10 :> 1) @@ (11 :> 2) @@ (12 :> 3) @@ (20 :> 9)

ReadCalls ==
    {Call("read_runtime", 0, 0, FALSE, NoParams),
     Call("read_energy", 0, 0, FALSE, NoParams),
     Call("read_battery", 0, 0, TRUE, NoParams),
     Call("read_midbox_runtime", 0, 0, FALSE, NoParams),
     Call("read_parameters", 0, 10, FALSE, NoParams)}

ConcurrentCalls ==
    {Call("read_runtime", 0, 0, FALSE, NoParams),
     Call("read_energy", 0, 0, FALSE, NoParams),
     Call("read_parameters", 0, 10, FALSE, NoParams)}
    \cup {Call("write_parameters", 0, 0, FALSE, P) :
            P \in {(0 :> 1), (0 :> 1) @@ (2 :> 2)}}

SequentialCalls ==
    ReadCalls
    \cup {Call("read_battery", 0, 0, FALSE, NoParams)}
    \cup {Call("read_parameters", 5, c, FALSE, NoParams) :
            c \in {0, MaxWords, MaxWords + 1, 2 * MaxWords + 1}}
    \cup {Call("write_parameters", 0, 0, FALSE, P) :
            P \in SmallMaps \cup LongMaps \cup {ExampleMap}}

Calls == IF tracing THEN SequentialCalls ELSE ConcurrentCalls

-----------------------------------------------------------------------------
(* The reads a call performs, as phases.  A phase is one loop of register    *)
(* reads: check = the consecutive-error check precedes it, pace = how the    *)
(* loop waits between reads, fail = what the caller does with a failed read. *)

Phase(check, input, reads, pace, fail) ==
    [check |-> check, input |-> input, reads |-> reads, pace |-> pace,
     fail |-> fail]

(* read_battery: the individual battery registers (5000+) *)
IndividualPhase(battery_count) ==
    LET batteries_to_read == Min(battery_count, INDIVIDUAL_BATTERY_MAX_COUNT)
        total_registers == batteries_to_read * INDIVIDUAL_BATTERY_REGISTER_COUNT
    IN  Phase(FALSE, TRUE,
              Chunks(INDIVIDUAL_BATTERY_BASE_ADDRESS, total_registers),
              "none", "swallow")

Plan(c) ==
    CASE c.op = "read_runtime" ->
           <<Phase(TRUE, TRUE, GroupReads(GroupOrder), "adaptive", "wrap")>>
      [] c.op = "read_energy" ->
           <<Phase(TRUE, TRUE, GroupReads(<<"power_energy", "status_energy">>),
                   "adaptive", "wrap"),
             Phase(TRUE, TRUE, GroupReads(<<"bms_data">>), "adaptive", "swallow")>>
      [] c.op = "read_battery" ->
           <<Phase(TRUE, TRUE,
                   <<(<<0, BatteryChunk>>), (<<BatteryChunk, BatteryChunk>>)>>,
                   "none", "swallow")>>
      [] c.op = "read_parameters" ->
           <<Phase(FALSE, FALSE, Chunks(c.start, c.count), "none", "raise")>>
      [] c.op = "read_midbox_runtime" ->
           <<Phase(FALSE, TRUE, MIDBOX_REGISTER_GROUPS, "fixed", "wrap")>>
      [] OTHER -> <<>>

-----------------------------------------------------------------------------
(* Task records *)

IdleTask ==
    [pc |-> "idle", op |-> "none", result |-> "none", phases |-> <<>>,
     phase_no |-> 0, idx |-> 0, include_individual |-> FALSE,
     parameters |-> NoParams, groups |-> <<>>,
     attempt |-> 0, last_err |-> "none", current_delay |-> 0,
     reqs |-> 0, slept |-> <<>>, last_out |-> "none", rd_err |-> "none",
     sent |-> 0, registers |-> {}, returned |-> <<>>,
     bank_voltage |-> BankVoltageAbsent, short_reads |-> 0,
     start_address |-> 0, count |-> 0, connected_at_call |-> TRUE]

(* _read_registers has returned or raised: its locals are gone *)
Forget(tk) ==
    [tk EXCEPT !.attempt = 0, !.last_err = "none", !.reqs = 0, !.slept = <<>>]

(* the call returns or raises: res is its result *)
Finish(tk, res) ==
    [tk EXCEPT !.pc = "idle", !.result = res, !.phases = <<>>, !.idx = 0,
               !.groups = <<>>, !.current_delay = 0,
               !.registers = IF res \in {"ok", "None"} THEN @ ELSE {}]

(* BatteryBankData.from_modbus_registers: None unless the bank voltage     *)
(* register was read and is at or above the no-battery threshold           *)
FromModbusRegisters(tk) ==
    IF tk.op = "read_battery"
    THEN IF tk.bank_voltage >= NoBatteryThreshold THEN "ok" ELSE "None"
    ELSE "ok"

(* the loop of the current phase is over; battery_count = all_registers.get(96, 0) *)
PhaseDone(tk, battery_count) ==
    LET more == IF tk.op = "read_battery" /\ Head(tk.phases).check
                   /\ tk.include_individual /\ battery_count > 0
                THEN <<IndividualPhase(battery_count)>>
                ELSE <<>>
    IN  [tk EXCEPT !.pc = "phase", !.phases = Tail(@) \o more, !.idx = 0,
                   !.phase_no = @ + 1, !.current_delay = 0]

(* a register read of the current phase raised err *)
SkipGroup(tk, err) == PhaseDone(tk, 0)

AlwaysRaise(tk, err) == Finish(tk, "TransportReadError")

HandleFail(tk, err) ==
    LET ph == Head(tk.phases)
    IN  CASE ph.fail = "wrap"    -> Finish(tk, "TransportReadError")
          [] ph.fail = "raise"   -> Finish(tk, err)
          [] ph.fail = "swallow" ->
               PhaseDone([tk EXCEPT !.registers =
                             IF tk.op = "read_battery" /\ ~ph.check
                             THEN {a \in @ : a < INDIVIDUAL_BATTERY_BASE_ADDRESS}
                             ELSE @], 0)

(* if self._last_read_retried: current_delay = min(current_delay * 2, 1.0) *)
NextDelay(ph, current_delay, retried) ==
    IF ph.pace = "adaptive" /\ retried
    THEN Min(current_delay * 2, MaxDelayMs)
    ELSE current_delay

(* _read_registers up to its retry loop: _ensure_connected() and the locals *)
EnterRead(tk) ==
    IF ~connected
    THEN HandleFail([tk EXCEPT !.rd_err = IF tracing THEN "TransportConnectionError"
                                          ELSE "none",
                               !.attempt = 0, !.last_err = "none", !.reqs = 0,
                               !.slept = <<>>, !.last_out = "none"],
                    "TransportConnectionError")
    ELSE [tk EXCEPT !.pc = "rd_wait", !.attempt = 0, !.last_err = "none",
                    !.reqs = 0, !.slept = <<>>, !.last_out = "none",
                    !.rd_err = "none"]

(* _write_holding_registers up to the lock: _ensure_connected() *)
EnterWrite(tk) ==
    IF ~connected
    THEN Finish(tk, "TransportConnectionError")
    ELSE [tk EXCEPT !.pc = "wr_wait", !.sent = 0]

(* self._last_read_retried = False, once _ensure_connected() has passed *)
RetriedAtEnter == IF connected THEN FALSE ELSE last_read_retried

(* if self._consecutive_errors >= self._max_consecutive_errors *)
NeverAtThreshold(errors) == FALSE

AtThreshold(errors) == errors >= MaxConsecutiveErrors

ThresholdReached == AtThreshold(consecutive_errors)

(* the head of a loop of register reads, with its consecutive-error check, *)
(* reached with the counter at errors                                      *)
PhaseEntryAt(tk, errors) ==
    IF tk.phases = <<>>
    THEN Finish(tk, FromModbusRegisters(tk))
    ELSE LET ph == Head(tk.phases)
         IN  IF ph.check /\ tk.idx = 0 /\ AtThreshold(errors)
             THEN [tk EXCEPT !.pc = "rc_wait"]
             ELSE IF ph.reads = <<>>
             THEN PhaseDone(tk, 0)
             ELSE EnterRead([tk EXCEPT !.idx = 1,
                                       !.current_delay = InterRegisterDelayMs])

PhaseEntry(tk) == PhaseEntryAt(tk, consecutive_errors)

(* self._last_read_retried after the head of the loop *)
PhaseRetried(tk) ==
    IF tk.phases # <<>> /\ Head(tk.phases).reads # <<>>
       /\ ~(Head(tk.phases).check /\ tk.idx = 0 /\ ThresholdReached)
    THEN RetriedAtEnter
    ELSE last_read_retried

(* the loop goes on to its next read without waiting *)
ReadsOn(tk) ==
    /\ tk.phases # <<>>
    /\ Head(tk.phases).pace = "none"
    /\ tk.idx < Len(Head(tk.phases).reads)

(* a register read of the current phase returned its values; after the    *)
(* last read of a loop the caller goes on to its next loop without         *)
(* suspending, the counter having just been reset to 0                     *)
AfterReadOk(tk, retried, battery_count) ==
    LET ph == Head(tk.phases)
        d  == NextDelay(ph, tk.current_delay, retried)
    IN  IF tk.idx < Len(ph.reads)
        THEN IF ph.pace = "none"
             THEN EnterRead([tk EXCEPT !.idx = @ + 1])
             ELSE [Forget(tk) EXCEPT !.current_delay = d, !.pc = "pace"]
        ELSE PhaseEntryAt(PhaseDone(Forget(tk), battery_count), 0)

(* what the client call of an attempt can produce: "short" is a response  *)
(* that is no error and carries one register less than requested          *)
ReadOutcomes == {"ok", "short", "exception", "invalid", "timeout", "ioerror"}

(* not result.isError() and result.registers present *)
Accepted(out) == out \in {"ok", "short"}

(* len(result.registers) *)
ResponseLength(out, count) ==
    IF out = "short" THEN RequestCount(count) - 1 ELSE RequestCount(count)

(* the values of a response merged into the map the caller is building *)
Merge(tk, out, bank_voltage) ==
    LET read == Head(tk.phases).reads[tk.idx]
        n == ResponseLength(out, read[2])
        got == RegistersFromValues(read[1], n)
    IN  [tk EXCEPT !.registers = IF tracing THEN @ \cup got ELSE @,
                   !.returned = IF tracing THEN Append(@, <<read[1], n>>) ELSE @,
                   !.short_reads = IF tracing /\ out = "short" THEN @ + 1 ELSE @,
                   !.bank_voltage = IF tk.op = "read_battery"
                                       /\ BankVoltageRegister \in got
                                    THEN bank_voltage ELSE @]
WriteOutcomes == {"ok", "exception", "timeout", "ioerror"}

(* the except clauses of _read_registers *)
ReadError(out) ==
    IF out = "timeout" THEN "TransportTimeoutError" ELSE "TransportReadError"

(* the except clauses of _write_holding_registers *)
WriteError(out) ==
    IF out = "timeout" THEN "TransportTimeoutError" ELSE "TransportWriteError"

(* async with self._lock: the lock can be taken *)
LockIgnored == TRUE

LockFree == lock = NoTask

(* if attempt < self._retries *)
RetryOnceMore(attempt) == attempt < Retries + 1

ShouldRetry(attempt) == attempt < Retries

(* delay = self._retry_delay * (2**attempt) *)
RetryDelay(attempt) == RetryDelayMs * Pow2(attempt)

(* _reconnect: if self._consecutive_errors < self._max_consecutive_errors: return *)
NoDoubleCheck == FALSE

AlreadyReset == consecutive_errors < MaxConsecutiveErrors

(* self._consecutive_errors += 1, in every except clause of _read_registers *)
ErrorUncounted(errors) == errors

CountError(errors) == errors + 1

(* what a sequential run remembers of an attempt *)
Seen(x) == IF tracing THEN x ELSE "none"

SetTask(t, tk) == task' = [task EXCEPT ![t] = tk]

Record(frame) == wire' = IF tracing THEN Append(wire, frame) ELSE wire

-----------------------------------------------------------------------------
(* LAN scanner (NetworkScanner): configuration and the state of one scan *)

(* Bounds of the scanner model *)

MaxHosts == 12
MaxDevices == 2
MaxFaults == 1

(* Program constants *)

PORT_MODBUS == 502
PORT_DONGLE == 8000
ProgressEvery == 10

(* the family codes _verify_modbus accepts, by the names of the constants *)
known_codes == {"GRIDBOSS", "SNA", "PV_SERIES", "FLEXBOSS", "LXP_EU"}

(* a port that is neither PORT_MODBUS nor PORT_DONGLE *)
OtherPort == 1502

(* ScanConfig; hosts is the number of addresses parse_ip_range returns,     *)
(* the hosts themselves are 1..hosts; progress_callback tells whether the  *)
(* scanner was constructed with one                                        *)
ScanConfig(hosts, ports, concurrency, verify_modbus, lookup_mac, cb) ==
    [hosts |-> hosts, ports |-> ports, concurrency |-> concurrency,
     verify_modbus |-> verify_modbus, lookup_mac |-> lookup_mac,
     progress_callback |-> cb]

ScanConfigs ==
    {ScanConfig(0, <<PORT_MODBUS, PORT_DONGLE>>, 1, FALSE, FALSE, TRUE)}
    \cup {ScanConfig(2, <<PORT_MODBUS, PORT_DONGLE>>, c, FALSE, FALSE, TRUE) :
             c \in 1..2}
    \cup {ScanConfig(2, <<PORT_MODBUS, PORT_DONGLE>>, 1, TRUE, TRUE, TRUE)}
    \cup {ScanConfig(2, <<PORT_MODBUS>>, 2, TRUE, TRUE, TRUE)}
    \cup {ScanConfig(3, <<OtherPort>>, 2, TRUE, FALSE, cb) : cb \in BOOLEAN}
    \cup {ScanConfig(MaxHosts, <<PORT_MODBUS>>, 1, FALSE, FALSE, TRUE)}

(* the task of one host: scan_host(ip) and the _probe_port it is in *)
HostTask ==
    [pc |-> "created",   \* created | waiting | woken | connecting | closing |
                         \* verify_connect | discovering | disconnecting |
                         \* done | failed
     port_no |-> 0,      \* index in config.ports of the port being probed
     info |-> "none",    \* what discover_device_info gave, while disconnecting
     verify_connected |-> 0,  \* transports of _verify_modbus that connected
     disconnects |-> 0]  \* calls of their disconnect() that have ended

ScanIdle ==
    [pc |-> "idle",           \* idle | sleeping | yielded | done | raised
     config |-> ScanConfig(0, <<>>, 1, FALSE, FALSE, FALSE),
     value |-> 0,             \* semaphore._value
     waiters |-> <<>>,        \* semaphore._waiters, the tasks in FIFO order
     host |-> <<>>,           \* the tasks of scan_host, by host
     results_queue |-> <<>>,
     scanned_count |-> 0,
     found_count |-> 0,
     pending_tasks |-> {},
     yielded |-> <<>>,        \* the results the generator has yielded
     progress |-> <<>>,       \* the ScanProgress values given to the callback
     faults_left |-> MaxFaults,  \* unexpected exceptions that may still occur
     connects |-> {},         \* the (host, port) pairs whose connect succeeded
     opened |-> {},           \* the pairs _probe_port found open (connected
                              \* and closed)
     verify_log |-> {},       \* what happened in the calls of _verify_modbus
     cancel_called |-> FALSE] \* whether the caller has called cancel()

-----------------------------------------------------------------------------
(* Cloud client (LuxpowerClient): session, backoff and one call at a time *)

(* Bounds of the cloud model *)

MaxCloudCalls == 7
MaxCloudErrors == 7

(* Backoff parameters, in seconds *)

BackoffBase == 1
BackoffCap == 60

CloudIdle ==
    [session |-> "fresh",         \* fresh | logged_in | expired | auth_lost |
                                  \* fatal
     consecutive_errors |-> 0,    \* client._consecutive_errors
     current_backoff_delay |-> 0, \* client._current_backoff_delay
     pc |-> "idle",               \* idle | login | request | relogin: the
                                  \* exchange whose response is awaited
     steps |-> <<>>,              \* the client calls the endpoint has yet to make
     trace |-> <<>>,              \* the exchanges of the call, in order
     expired_at_call |-> FALSE,   \* the call found the session past its TTL
     result |-> "none",
     waited |-> 0,                \* the delay applied before the last exchange
     answered |-> 0,              \* exchanges that have ended
     last |-> "none",             \* how the last of them ended: ok | failed
     calls_left |-> MaxCloudCalls]

-----------------------------------------------------------------------------
(* Decoder: one 16-bit raw word of a field of the register map *)

(* Bound of the decoder model: the raw words taken are those within        *)
(* RawSpan of 0, of the sign boundary and of the largest word              *)
RawSpan == 12

(* Bound of the decoder model: the register maps handed to the decoder     *)
(* hold addresses 0..MaxRegAddr                                            *)
MaxRegAddr == 2

WordBits == 16

NoRegisters == [a \in {} |-> 0]

DecodeIdle ==
    [pc |-> "idle",          \* idle | raw | decoded | raw32 | decoded32
     r |-> 0,                \* the raw word
     signed |-> FALSE,       \* the field's declaration
     divisor |-> 1,          \* its scale: the decoded value is raw / divisor
     value |-> [num |-> 0, den |-> 1],
     registers |-> NoRegisters,  \* the raw register map: address -> word
     address |-> 0,          \* the address A of a 32-bit field
     value32 |-> {}]         \* the decoded 32-bit field; {} stands for None

-----------------------------------------------------------------------------
(* Inverter runtime properties: the decoded runtime data of the local      *)
(* transport (None is the empty set, a value v the set {v}) and the        *)
(* per-leg EPS powers read from it                                         *)

None == {}

InverterIdle ==
    [pc |-> "idle",              \* idle | refreshed
     eps_power |-> None,         \* _transport_runtime.eps_power, W
     eps_l1_voltage |-> None,    \* _transport_runtime.eps_l1_voltage, V
     eps_l2_voltage |-> None,    \* _transport_runtime.eps_l2_voltage, V
     eps_power_l1 |-> None,      \* the value read from property eps_power_l1
     eps_power_l2 |-> None]      \* the value read from property eps_power_l2

-----------------------------------------------------------------------------
(* Initial states: a constructed, not yet connected transport *)

InitTransport ==
    /\ connected = FALSE
    /\ lock = NoTask
    /\ consecutive_errors = 0
    /\ last_read_retried = FALSE
    /\ task = [t \in Tasks |-> IdleTask]
    /\ wire = <<>>
    /\ seq_started = 0
    /\ seq_completed = 0
    /\ orphans = 0
    /\ scan = ScanIdle
    /\ cloud = CloudIdle
    /\ decode = DecodeIdle
    /\ inverter = InverterIdle

(* concurrent tasks on one transport *)
Init ==
    /\ InitTransport
    /\ tracing = FALSE
    /\ callers = Tasks
    /\ budget = MaxOps

(* one task, calls one after the other, the frames of each call recorded *)
InitSeq ==
    /\ InitTransport
    /\ tracing = TRUE
    /\ callers = {1}
    /\ budget = MaxSeqOps

-----------------------------------------------------------------------------
(* connect() called by the user of the transport *)
UserConnect(ok) ==
    /\ ~connected
    /\ lock = NoTask
    /\ connected' = ok
    /\ UNCHANGED <<lock, consecutive_errors, last_read_retried, task, wire,
                   tracing, callers, scan, cloud, decode, inverter, orphans, budget, seq_started, seq_completed>>

(* a task calls one of the transport's operations *)
Invoke(t, c) ==
    /\ task[t].pc = "idle"
    /\ t \in callers
    /\ budget > 0
    /\ budget' = budget - 1
    /\ wire' = <<>>
    /\ LET tk == [IdleTask EXCEPT !.op = c.op, !.phase_no = 1,
                                  !.include_individual = c.include_individual,
                                  !.parameters = c.parameters,
                                  !.start_address = c.start, !.count = c.count,
                                  !.connected_at_call =
                                      IF tracing THEN connected ELSE TRUE]
       IN  IF c.op = "write_parameters"
           THEN LET groups == WriteGroups(c.parameters)
                IN  /\ IF groups = <<>>
                       THEN SetTask(t, Finish(tk, "ok"))
                       ELSE SetTask(t, EnterWrite([tk EXCEPT !.groups = groups,
                                                             !.idx = 1]))
                    /\ UNCHANGED last_read_retried
           ELSE LET tk0 == [tk EXCEPT !.phases = Plan(c), !.pc = "phase"]
                IN  /\ SetTask(t, PhaseEntry(tk0))
                    /\ last_read_retried' = PhaseRetried(tk0)
    /\ UNCHANGED <<connected, lock, consecutive_errors, tracing, callers, scan, cloud, decode, inverter, orphans,
                   seq_started, seq_completed>>

(* the head of a loop of register reads reached again: after a phase, or  *)
(* on return from _reconnect                                              *)
BeginPhase(t) ==
    LET tk == task[t]
    IN  /\ tk.pc = "phase"
        /\ SetTask(t, PhaseEntry(tk))
        /\ last_read_retried' = PhaseRetried(tk)
        /\ UNCHANGED <<connected, lock, consecutive_errors,
                       wire, tracing, callers, scan, cloud, decode, inverter, orphans, budget, seq_started, seq_completed>>

(* _reconnect: the lock is taken and the counter checked again *)
ReconnectEnter(t) ==
    LET tk == task[t]
    IN  /\ tk.pc = "rc_wait"
        /\ LockFree
        /\ IF AlreadyReset
           THEN /\ SetTask(t, [tk EXCEPT !.pc = "phase", !.idx = -1])
                /\ UNCHANGED lock
           ELSE /\ SetTask(t, [tk EXCEPT !.pc = "rc_disconnect"])
                /\ lock' = t
        /\ UNCHANGED <<connected, consecutive_errors, last_read_retried, wire,
                       tracing, callers, scan, cloud, decode, inverter, orphans, budget, seq_started, seq_completed>>

(* _reconnect: await self.disconnect() *)
ReconnectDisconnect(t) ==
    LET tk == task[t]
    IN  /\ tk.pc = "rc_disconnect"
        /\ connected' = FALSE
        /\ seq_started' = seq_started + 1
        /\ SetTask(t, [tk EXCEPT !.pc = "rc_connect"])
        /\ UNCHANGED <<lock, consecutive_errors, last_read_retried, wire,
                       tracing, callers, scan, cloud, decode, inverter, orphans, budget, seq_completed>>

(* _reconnect: await self.connect(); self._consecutive_errors = 0 *)
ReconnectConnect(t, ok) ==
    LET tk == task[t]
    IN  /\ tk.pc = "rc_connect"
        /\ lock' = NoTask
        /\ IF ok
           THEN /\ connected' = TRUE
                /\ consecutive_errors' = 0
                /\ seq_completed' = seq_completed + 1
                /\ SetTask(t, [tk EXCEPT !.pc = "phase", !.idx = -1])
           ELSE /\ SetTask(t, Finish(tk, "TransportConnectionError"))
                /\ UNCHANGED <<connected, consecutive_errors, seq_completed>>
        /\ UNCHANGED <<last_read_retried, wire, tracing, callers, scan, cloud, decode, inverter, orphans, budget,
                       seq_started>>

(* one attempt: the lock is taken and the request handed to the client *)
SendRead(t) ==
    LET tk == task[t]
        ph == Head(tk.phases)
    IN  /\ tk.pc = "rd_wait"
        /\ LockFree
        /\ lock' = t
        /\ Record(ReadFrame(ph.input, ph.reads[tk.idx]))
        /\ SetTask(t, [tk EXCEPT !.pc = "rd_inflight", !.reqs = @ + 1])
        /\ UNCHANGED <<connected, consecutive_errors, last_read_retried,
                       tracing, callers, scan, cloud, decode, inverter, orphans, budget, seq_started, seq_completed>>

(* the attempt's response: the rest of the loop body of _read_registers *)
RecvRead(t, out, battery_count, bank_voltage) ==
    LET tk == task[t]
        err == ReadError(out)
        nxt == AfterReadOk(Merge(tk, out, bank_voltage), last_read_retried,
                           battery_count)
    IN  /\ tk.pc = "rd_inflight"
        /\ out = "short" => tk.short_reads < MaxShort
        /\ lock' = NoTask
        /\ IF Accepted(out)
           THEN /\ consecutive_errors' = 0
                /\ SetTask(t, nxt)
                /\ last_read_retried' =
                      IF nxt.pc = "rd_wait" THEN FALSE ELSE last_read_retried
                /\ UNCHANGED <<seq_started, seq_completed>>
           ELSE /\ consecutive_errors' = CountError(consecutive_errors)
                /\ seq_started' = IF consecutive_errors + 1 = MaxConsecutiveErrors
                                  THEN 0 ELSE seq_started
                /\ seq_completed' = IF consecutive_errors + 1 = MaxConsecutiveErrors
                                    THEN 0 ELSE seq_completed
                /\ IF ShouldRetry(tk.attempt)
                   THEN /\ last_read_retried' = TRUE
                        /\ SetTask(t, [tk EXCEPT !.pc = "rd_wait",
                                         !.last_err = err, !.last_out = Seen(out),
                                         !.slept = Append(@, RetryDelay(tk.attempt)),
                                         !.attempt = @ + 1])
                   ELSE /\ SetTask(t, HandleFail(
                                         IF tracing
                                         THEN [tk EXCEPT !.last_err = err,
                                                         !.last_out = out,
                                                         !.rd_err = err]
                                         ELSE Forget(tk), err))
                        /\ UNCHANGED last_read_retried
        /\ UNCHANGED <<connected, wire, tracing, callers, scan, cloud, decode, inverter, orphans, budget>>

(* await asyncio.sleep(current_delay) between two reads of a loop *)
Pace(t) ==
    LET tk == task[t]
    IN  /\ tk.pc = "pace"
        /\ SetTask(t, EnterRead([tk EXCEPT !.idx = @ + 1]))
        /\ last_read_retried' = RetriedAtEnter
        /\ UNCHANGED <<connected, lock, consecutive_errors,
                       wire, tracing, callers, scan, cloud, decode, inverter, orphans, budget, seq_started, seq_completed>>

(* the lock is taken and the write handed to the client *)
SendWrite(t) ==
    LET tk == task[t]
    IN  /\ tk.pc = "wr_wait"
        /\ LockFree
        /\ lock' = t
        /\ Record(WriteFrame(tk.groups[tk.idx]))
        /\ SetTask(t, [tk EXCEPT !.pc = "wr_inflight", !.sent = @ + 1])
        /\ UNCHANGED <<connected, consecutive_errors, last_read_retried,
                       tracing, callers, scan, cloud, decode, inverter, orphans, budget, seq_started, seq_completed>>

(* a failed write: the error is raised to the caller of write_parameters *)
ResendWrite(tk, err) == [tk EXCEPT !.pc = "wr_wait"]

WriteNextRun(tk, err) ==
    IF tk.idx < Len(tk.groups)
    THEN EnterWrite([tk EXCEPT !.idx = @ + 1])
    ELSE Finish(tk, err)

WriteFailed(tk, err) == Finish(tk, err)

(* the write's response *)
RecvWrite(t, out) ==
    LET tk == task[t]
    IN  /\ tk.pc = "wr_inflight"
        /\ lock' = NoTask
        /\ IF out = "ok"
           THEN IF tk.idx < Len(tk.groups)
                THEN SetTask(t, EnterWrite([tk EXCEPT !.idx = @ + 1]))
                ELSE SetTask(t, Finish(tk, "ok"))
           ELSE SetTask(t, WriteFailed([tk EXCEPT !.last_out = Seen(out)],
                                       WriteError(out)))
        /\ UNCHANGED <<connected, consecutive_errors, last_read_retried, wire,
                       tracing, callers, scan, cloud, decode, inverter, orphans, budget, seq_started, seq_completed>>

(* the task is cancelled while its client call awaits the response:       *)
(* CancelledError is raised at the await, none of the except clauses       *)
(* catches it, and leaving the async with block releases the lock; the     *)
(* request is on the socket and its response is still to come              *)
Cancel(t) ==
    LET tk == task[t]
    IN  /\ tk.pc \in {"rd_inflight", "wr_inflight"}
        /\ budget > 0
        /\ budget' = budget - 1
        /\ lock' = NoTask
        /\ orphans' = orphans + 1
        /\ SetTask(t, Finish(Forget(tk), "CancelledError"))
        /\ UNCHANGED <<connected, consecutive_errors, last_read_retried, wire,
                       tracing, callers, scan, cloud, decode, inverter, seq_started, seq_completed>>

(* the response to an abandoned request arrives, or its timeout expires *)
Drain ==
    /\ orphans > 0
    /\ orphans' = orphans - 1
    /\ UNCHANGED <<connected, lock, consecutive_errors, last_read_retried,
                   task, wire, tracing, callers, scan, cloud, decode, inverter, budget, seq_started,
                   seq_completed>>

(* the device's register 96 (battery count), where the read covers it *)
BatteryCounts(t) ==
    IF task[t].op = "read_battery" /\ task[t].phases # <<>>
       /\ Head(task[t].phases).check /\ task[t].idx = 2
    THEN 0..MaxBatt ELSE {0}

(* the device's bank voltage register, where the read covers it: no       *)
(* battery (0) or 53.0 V                                                  *)
BankVoltages(t) ==
    IF task[t].op = "read_battery" /\ task[t].phases # <<>>
       /\ Head(task[t].phases).check /\ task[t].idx = 1
    THEN {0, 530} ELSE {0}

Next ==
    \/ \E ok \in BOOLEAN : UserConnect(ok)
    \/ \E t \in Tasks : \E c \in Calls : Invoke(t, c)
    \/ \E t \in Tasks : BeginPhase(t)
    \/ \E t \in Tasks : ReconnectEnter(t)
    \/ \E t \in Tasks : ReconnectDisconnect(t)
    \/ \E t \in Tasks : \E ok \in BOOLEAN : ReconnectConnect(t, ok)
    \/ \E t \in Tasks : SendRead(t)
    \/ \E t \in Tasks : \E out \in ReadOutcomes :
          \E b \in BatteryCounts(t) : \E v \in BankVoltages(t) :
             RecvRead(t, out, b, v)
    \/ \E t \in Tasks : Pace(t)
    \/ \E t \in Tasks : SendWrite(t)
    \/ \E t \in Tasks : \E out \in WriteOutcomes : RecvWrite(t, out)
    \/ \E t \in Tasks : Cancel(t)
    \/ Drain

Spec == Init /\ [][Next]_vars

SeqSpec == InitSeq /\ [][Next]_vars

-----------------------------------------------------------------------------
(* Properties *)

InFlight == {t \in Tasks : task[t].pc \in {"rd_inflight", "wr_inflight"}}

Reconnecting == {t \in Tasks : task[t].pc \in {"rc_disconnect", "rc_connect"}}

(* C1: on one transport at most one frame exchange (a client read or write *)
(* call awaiting its response) is in flight at any time, and the task      *)
(* whose exchange is in flight is the one holding the transport's lock.    *)
C1_OneExchangeInFlight ==
    /\ Cardinality(InFlight) <= 1
    /\ \A t \in InFlight : lock = t

C1_Witness ==
    \E t, u \in Tasks :
        /\ task[t].pc = "rd_inflight"
        /\ task[u].pc = "wr_wait"

(* C2: a read operation that finds N consecutive errors accumulated sends  *)
(* its first request only after a disconnect and reconnect, so the first   *)
(* request of an operation is never sent with the counter at or above N.   *)
C2_ReconnectBeforeNextRead ==
    \A t \in Tasks :
        (/\ task[t].pc = "rd_inflight"
         /\ task[t].phase_no = 1
         /\ task[t].idx = 1
         /\ task[t].attempt = 0)
        => consecutive_errors < MaxConsecutiveErrors

(* C3 as stated: at most one reconnect runs at a time and exactly one      *)
(* disconnect-then-connect sequence is executed per threshold crossing.    *)
C3_OneSequencePerCrossing ==
    /\ Cardinality(Reconnecting) <= 1
    /\ seq_started <= 1

(* C3 as amended: at most one reconnect runs at a time, under the lock,    *)
(* and at most one disconnect-then-connect sequence completes per          *)
(* threshold crossing: once one has completed the counter is reset and     *)
(* the operations that were waiting return without reconnecting.           *)
C3_OneCompletedSequencePerCrossing ==
    /\ Cardinality(Reconnecting) <= 1
    /\ \A t \in Reconnecting : lock = t
    /\ seq_completed <= 1
    /\ seq_completed = 1 => seq_started >= 1

C3_Witness ==
    \E t, u \in Tasks :
        /\ t # u
        /\ seq_completed = 1
        /\ consecutive_errors = 0
        /\ task[t].pc \in {"phase", "rd_wait"}
        /\ task[u].pc = "rc_wait"

(* C4: a Modbus exception response ends the register read: no further     *)
(* request is issued for that read after it.                               *)
C4_ExceptionNotRetried ==
    \A t \in Tasks :
        task[t].last_out = "exception"
        => task[t].pc \notin {"rd_wait", "rd_inflight"}

(* C5: a register read issues at most Retries + 1 requests; after the k-th *)
(* failed attempt (k = 0..Retries-1) it waits retry_delay * 2^k, it does    *)
(* not wait after the final attempt, and the error it raises is that of    *)
(* the final attempt.                                                      *)
C5_ReadBounded ==
    \A t \in Tasks :
        LET tk == task[t]
        IN  /\ tk.reqs <= Retries + 1
            /\ Len(tk.slept) <= Retries
            /\ \A k \in 1..Len(tk.slept) :
                  tk.slept[k] = RetryDelayMs * Pow2(k - 1)
            /\ tk.pc = "rd_inflight" => tk.reqs = Len(tk.slept) + 1
            /\ tk.pc = "rd_wait" => tk.reqs = Len(tk.slept)
            /\ tk.rd_err \in {"TransportReadError", "TransportTimeoutError"}
               => /\ tk.reqs = Retries + 1
                  /\ Len(tk.slept) = Retries
                  /\ tk.rd_err = (IF tk.last_out = "timeout"
                                  THEN "TransportTimeoutError"
                                  ELSE "TransportReadError")

C5_Witness ==
    \E t \in Tasks :
        /\ task[t].rd_err = "TransportTimeoutError"
        /\ task[t].last_out = "timeout"
        /\ task[t].reqs = Retries + 1
        /\ task[t].slept = <<RetryDelayMs, 2 * RetryDelayMs>>

WriteCall(t) == task[t].op = "write_parameters"

(* C6: a write frame is handed to the client exactly once; when it fails   *)
(* by device error response, timeout or I/O error the call ends there with *)
(* TransportWriteError or TransportTimeoutError and nothing is sent again. *)
C6_WriteOnce ==
    \A t \in Tasks :
        WriteCall(t) =>
            LET tk == task[t]
            IN  /\ tk.sent <= 1
                /\ tk.pc = "wr_inflight" => tk.sent = 1
                /\ tracing =>
                     \A i, j \in 1..Len(wire) :
                        i < j => wire[i].address < wire[j].address
                /\ (tk.pc = "idle" /\ tk.sent = 1
                    /\ tk.result \notin {"ok", "CancelledError"})
                   => tk.result \in {"TransportWriteError", "TransportTimeoutError"}

C6_Witness ==
    \E t \in Tasks :
        /\ WriteCall(t)
        /\ task[t].pc = "idle"
        /\ task[t].result = "TransportWriteError"
        /\ task[t].sent = 1
        /\ Len(wire) = 2

(* the maximal runs of consecutive addresses of a parameter map *)
RunStarts(P) == {a \in DOMAIN P : (a - 1) \notin DOMAIN P}

RunLength(P, a) ==
    CHOOSE n \in 1..Cardinality(DOMAIN P) :
        /\ \A x \in a..(a + n - 1) : x \in DOMAIN P
        /\ (a + n) \notin DOMAIN P

(* C7: write_parameters issues one frame per maximal run of consecutive    *)
(* addresses, in ascending order of start address; the i-th frame starts   *)
(* at the i-th run's first address and carries that run's values in        *)
(* address order; a call that succeeds has issued exactly k frames.        *)
C7_OneFramePerRun ==
    \A t \in callers :
        (tracing /\ WriteCall(t)) =>
            LET P == task[t].parameters
            IN  /\ Len(wire) <= Cardinality(RunStarts(P))
                /\ \A i \in 1..Len(wire) :
                      LET a == wire[i].address
                      IN  /\ a \in RunStarts(P)
                          /\ Cardinality({b \in RunStarts(P) : b < a}) = i - 1
                          /\ wire[i].values =
                               [j \in 1..RunLength(P, a) |-> P[a + j - 1]]
                /\ (task[t].pc = "idle" /\ task[t].result = "ok")
                   => Len(wire) = Cardinality(RunStarts(P))

C7_Witness ==
    \E t \in callers :
        /\ tracing /\ WriteCall(t)
        /\ task[t].pc = "idle" /\ task[t].result = "ok"
        /\ Cardinality(RunStarts(task[t].parameters)) = 2
        /\ Len(wire) = 2
        /\ Len(wire[1].values) = 2

C9_AlwaysWriteRegisters ==
    \A t \in callers :
        (tracing /\ WriteCall(t)) =>
            \A i \in 1..Len(wire) : wire[i].fc = 16

Words(frame) ==
    IF frame.fc \in {3, 4} THEN frame.count ELSE Len(frame.values)

(* C10: no request handed to the client, read or write, carries more than  *)
(* 40 words.                                                               *)
C10_AtMostMaxWords ==
    tracing => \A i \in 1..Len(wire) : Words(wire[i]) <= MaxWords

-----------------------------------------------------------------------------
(* Properties of the read operations *)

(* the frames of a call without the repetitions made by retries *)
RECURSIVE Collapse(_)
Collapse(s) ==
    IF Len(s) <= 1 THEN s
    ELSE IF s[1] = s[2] THEN Collapse(Tail(s))
    ELSE <<s[1]>> \o Collapse(Tail(s))

ReadParametersCall(t) == tracing /\ task[t].op = "read_parameters"

GroupStarts == <<0, 32, 64, 80, 113, 170>>

GroupCounts == <<32, 32, 16, 33, 18, 2>>

ReadRuntimeCall(t) == tracing /\ task[t].op = "read_runtime"

(* the addresses carried by the responses a call has received *)
Carried(tk) ==
    UNION {{a \in 0..200 : /\ tk.returned[i][1] <= a
                           /\ a < tk.returned[i][1] + tk.returned[i][2]} :
           i \in 1..Len(tk.returned)}

C13_GroupFailureFailsRuntime ==
    \A t \in callers :
        (ReadRuntimeCall(t) /\ task[t].rd_err # "none") =>
            LET tk == task[t]
            IN  /\ tk.pc = "idle"
                /\ tk.result = "TransportReadError"
                /\ tk.registers = {}
                /\ Len(Collapse(wire)) =
                     Len(tk.returned)
                     + (IF tk.rd_err = "TransportConnectionError" THEN 0 ELSE 1)

C13_Witness ==
    \E t \in callers :
        /\ ReadRuntimeCall(t)
        /\ task[t].rd_err = "TransportTimeoutError"
        /\ task[t].result = "TransportReadError"
        /\ Len(task[t].returned) = 2
        /\ wire[Len(wire)].address = 64

(* C14: after a group read of a batch the inter-group wait is doubled      *)
(* (capped at 1.0 s) exactly when that read needed a retry, and is left    *)
(* unchanged when it needed none.                                          *)
C14_DelayFollowsOwnRetries ==
    [][\A t \in Tasks :
          (/\ task[t].pc = "rd_inflight"
           /\ task'[t].pc = "pace"
           /\ Head(task[t].phases).pace = "adaptive")
          => task'[t].current_delay =
               (IF task[t].attempt > 0
                THEN Min(2 * task[t].current_delay, MaxDelayMs)
                ELSE task[t].current_delay)]_vars

ReadEnergyCall(t) == tracing /\ task[t].op = "read_energy"

(* C15: once power_energy and status_energy have been read, read_energy    *)
(* returns a record holding their registers whatever happens to the        *)
(* bms_data read (error or timeout on every attempt, transport no longer   *)
(* connected); read_energy fails only if a primary group was not read.     *)
C15_SupplementarySwallowed ==
    \A t \in callers :
        ReadEnergyCall(t) =>
            LET tk == task[t]
            IN  /\ (tk.pc = "idle" /\ Len(tk.returned) >= 2
                    /\ tk.result # "CancelledError")
                   => /\ tk.result = "ok"
                      /\ ((0..30) \cup (32..62)) \subseteq tk.registers
                /\ (tk.pc = "idle" /\ tk.result = "ok")
                   => Len(tk.returned) >= 2

C15_Witness ==
    \E t \in callers :
        /\ ReadEnergyCall(t)
        /\ task[t].pc = "idle" /\ task[t].result = "ok"
        /\ task[t].rd_err = "TransportTimeoutError"
        /\ task[t].reqs = Retries + 1
        /\ Len(task[t].returned) = 2
        /\ wire[Len(wire)].address = 80

ReadBatteryCall(t) == task[t].op = "read_battery"

(* C16: read_battery returns None only when the bank voltage register was  *)
(* read and is below the no-battery threshold; failed reads or a transport *)
(* that is not connected never give None.                                  *)
C16_NoneOnlyWithoutBattery ==
    \A t \in callers :
        (ReadBatteryCall(t) /\ task[t].pc = "idle" /\ task[t].result = "None")
        => /\ task[t].bank_voltage # BankVoltageAbsent
           /\ task[t].bank_voltage < NoBatteryThreshold

(* C17: once the bank voltage register has been read below the no-battery  *)
(* threshold, read_battery sends no request for an address at or above     *)
(* 5000.                                                                   *)
C17_NoIndividualReadWithoutBattery ==
    \A t \in callers :
        (/\ tracing /\ ReadBatteryCall(t)
         /\ task[t].bank_voltage # BankVoltageAbsent
         /\ task[t].bank_voltage < NoBatteryThreshold)
        => \A i \in 1..Len(wire) :
              wire[i].address < INDIVIDUAL_BATTERY_BASE_ADDRESS

(* C18: while a frame abandoned by a cancelled task has neither been       *)
(* answered nor timed out, the lock is held and no other frame exchange    *)
(* is in flight.                                                           *)
C18_LockHeldUntilFrameDone ==
    orphans > 0 => (lock # NoTask /\ InFlight = {})

(* C19: no response carrying fewer registers than requested is accepted:   *)
(* a read_parameters call that returns has a value for every address of    *)
(* the range it was asked for.                                             *)
C19_ShortReadRejected ==
    \A t \in callers :
        /\ task[t].short_reads = 0
        /\ (ReadParametersCall(t) /\ task[t].pc = "idle"
            /\ task[t].result = "ok")
           => task[t].registers =
                task[t].start_address..(task[t].start_address + task[t].count - 1)

(* a call that has registers to transfer *)
Transfers(tk) ==
    CASE tk.op = "write_parameters" -> DOMAIN tk.parameters # {}
      [] tk.op = "read_parameters"  -> tk.count > 0
      [] OTHER -> tk.op # "none"

(* C20: an operation called on a transport that is not connected sends no  *)
(* frame and ends with an error: TransportConnectionError for              *)
(* read_parameters and write_parameters, TransportReadError for the        *)
(* other reads.                                                            *)
C20_NotConnectedFails ==
    \A t \in callers :
        (/\ tracing /\ Transfers(task[t])
         /\ ~task[t].connected_at_call
         /\ task[t].pc = "idle")
        => /\ wire = <<>>
           /\ task[t].result =
                (IF task[t].op \in {"read_parameters", "write_parameters"}
                 THEN "TransportConnectionError"
                 ELSE "TransportReadError")

-----------------------------------------------------------------------------
(* LAN scanner: scan(), scan_host(), _probe_port() and _verify_modbus().   *)
(* A step is the code the generator or one host's task runs between two    *)
(* suspension points of the event loop.                                    *)

transport_vars == <<connected, lock, consecutive_errors, last_read_retried,
                    task, wire, tracing, callers, budget, seq_started,
                    seq_completed, orphans>>

SetScan(s) == scan' = s /\ UNCHANGED <<transport_vars, cloud, decode, inverter>>

Hosts(s) == 1..s.config.hosts

PortOf(s, h) == s.config.ports[s.host[h].port_no]

ScanResult(ip, port, device_type, code, error, mac) ==
    [ip |-> ip, port |-> port, device_type |-> device_type,
     device_type_code |-> code, error |-> error, mac_address |-> mac]

ScanProgress(total_hosts, scanned, found) ==
    [total_hosts |-> total_hosts, scanned |-> scanned, found |-> found]

(* an exception, with the arguments it was constructed with *)
Exception(type, args) == [type |-> type, args |-> args]

(* str(err) *)
Str(err) ==
    IF Len(err.args) = 0 THEN ""
    ELSE IF Len(err.args) = 1 THEN err.args[1]
    ELSE "(...)"

ConnectError == Exception("OSError", <<"Connection reset">>)
DiscoveryError == Exception("TransportReadError", <<"Failed to read registers">>)
DisconnectError == Exception("OSError", <<"Broken pipe">>)

(* lookup_mac_address(ip), where config.lookup_mac asks for it *)
MacOf(s, h) == IF s.config.lookup_mac THEN "looked_up" ELSE "None"

NeverLocked(s) == FALSE

(* semaphore.locked(): no permit left, or tasks waiting in front *)
Locked(s) == s.value = 0 \/ s.waiters # <<>>

(* semaphore.release(): the permit goes to the first waiter, if any *)
Release(s) ==
    IF s.waiters # <<>>
    THEN [s EXCEPT !.waiters = Tail(@), !.host[Head(s.waiters)].pc = "woken"]
    ELSE [s EXCEPT !.value = @ + 1]

(* _probe_port(ip, config.ports[n]) up to the await of the connection *)
StartProbe(s, h, n) ==
    [s EXCEPT !.host[h].pc = "connecting", !.host[h].port_no = n,
              !.host[h].info = "none"]

(* the end of scan_host: the count, the periodic progress update and the   *)
(* release of the semaphore                                                *)
FinishHost(s, h) ==
    LET s1 == [s EXCEPT !.scanned_count = @ + 1, !.host[h].pc = "done"]
        s2 == IF s1.config.progress_callback
                 /\ s1.scanned_count % ProgressEvery = 0
              THEN [s1 EXCEPT !.progress =
                       Append(@, ScanProgress(s1.config.hosts, s1.scanned_count,
                                              s1.found_count))]
              ELSE s1
    IN  Release(s2)

(* the for loop of scan_host goes on to the next port *)
NextPort(s, h) ==
    IF s.host[h].port_no < Len(s.config.ports)
    THEN StartProbe(s, h, s.host[h].port_no + 1)
    ELSE FinishHost(s, h)

(* _probe_port returned a result *)
Found(s, h, result) ==
    NextPort([s EXCEPT !.found_count = @ + 1,
                       !.results_queue = Append(@, result)], h)

(* the result of an open port that is not verified *)
Unprobed(s, h) ==
    IF PortOf(s, h) = PORT_DONGLE
    THEN ScanResult(h, PortOf(s, h), "DONGLE_CANDIDATE", "None", "None",
                    MacOf(s, h))
    ELSE ScanResult(h, PortOf(s, h), "MODBUS_UNVERIFIED", "None", "None",
                    MacOf(s, h))

(* an entry of verify_log: in the call of _verify_modbus for the pair of   *)
(* h's probe, event happened (called, connect_ok, connect_failed,          *)
(* discovered with the code read, discovery_failed, disconnect_failed)     *)
Logged(s, h, event, code) ==
    [s EXCEPT !.verify_log =
         @ \cup {[ip |-> h, port |-> PortOf(s, h), event |-> event,
                  code |-> code]}]

VerifiesAnyPort(s, h) == s.config.verify_modbus

(* whether _probe_port hands the open port to _verify_modbus *)
Verifies(s, h) == PortOf(s, h) = PORT_MODBUS /\ s.config.verify_modbus

(* the result of _verify_modbus when an exception reached its handler *)
VerifyFailed(s, h, err) ==
    ScanResult(h, PortOf(s, h), "MODBUS_UNVERIFIED", "None", Str(err),
               MacOf(s, h))

UnknownCodeText(code) == "Unknown device type code: " \o code

AcceptAnyCode(s, h, code) ==
    ScanResult(h, PortOf(s, h), "MODBUS_VERIFIED", code, "None", MacOf(s, h))

(* the result of _verify_modbus after discovery and disconnect succeeded *)
Verified(s, h, code) ==
    IF code \in known_codes
    THEN ScanResult(h, PortOf(s, h), "MODBUS_VERIFIED", code, "None",
                    MacOf(s, h))
    ELSE ScanResult(h, PortOf(s, h), "MODBUS_UNVERIFIED", code,
                    UnknownCodeText(code), MacOf(s, h))

Reraise(s, newly_done) ==
    IF \E h \in newly_done : s.host[h].pc = "failed"
    THEN [s EXCEPT !.pc = "raised"]
    ELSE s

(* the exceptions of the tasks that ended are logged *)
TaskExceptions(s, newly_done) == s

FinalizeCounted(s) ==
    [s EXCEPT !.pc = "done",
              !.progress =
                  IF s.config.progress_callback
                  THEN Append(@, ScanProgress(s.config.hosts, s.scanned_count,
                                              s.found_count))
                  ELSE @]

(* the end of scan(): the final progress update *)
Finalize(s) ==
    [s EXCEPT !.pc = "done",
              !.progress =
                  IF s.config.progress_callback
                  THEN Append(@, ScanProgress(s.config.hosts, s.config.hosts,
                                              s.found_count))
                  ELSE @]

(* the inner loop of scan(): yield the next queued result; with the queue  *)
(* empty, sleep while tasks are pending, otherwise the outer loop ends     *)
DrainResults(s) ==
    IF s.results_queue # <<>>
    THEN [s EXCEPT !.yielded = Append(@, Head(s.results_queue)),
                   !.results_queue = Tail(@), !.pc = "yielded"]
    ELSE IF s.pending_tasks # {}
    THEN [s EXCEPT !.pc = "sleeping"]
    ELSE Finalize(s)

AllStarted(s) == \A h \in Hosts(s) : s.host[h].pc # "created"

Scanning == scan.pc \in {"sleeping", "yielded"}

(* scan() is called and runs to its first sleep *)
StartScan(cfg) ==
    /\ scan.pc = "idle"
    /\ IF cfg.hosts = 0
       THEN SetScan([scan EXCEPT !.pc = "done", !.config = cfg])
       ELSE SetScan([scan EXCEPT !.pc = "sleeping", !.config = cfg,
                                 !.value = cfg.concurrency,
                                 !.host = [h \in 1..cfg.hosts |-> HostTask],
                                 !.pending_tasks = 1..cfg.hosts])

(* a task runs for the first time, in the order of creation: it takes a    *)
(* permit and starts its first probe, or queues for the semaphore          *)
TaskStart(h) ==
    /\ Scanning
    /\ h \in Hosts(scan)
    /\ scan.host[h].pc = "created"
    /\ \A g \in 1..(h - 1) : scan.host[g].pc # "created"
    /\ IF ~Locked(scan)
       THEN SetScan(StartProbe([scan EXCEPT !.value = @ - 1], h, 1))
       ELSE SetScan([scan EXCEPT !.waiters = Append(@, h),
                                 !.host[h].pc = "waiting"])

(* a task that was handed a permit runs again *)
TaskResume(h) ==
    /\ Scanning
    /\ h \in Hosts(scan)
    /\ scan.host[h].pc = "woken"
    /\ SetScan(StartProbe(scan, h, 1))

(* the hosts of the network on which a port may accept a connection *)
Devices == 1..MaxDevices

ConnectOutcomes == {"connected", "timeout", "refused", "oserror", "unexpected"}

(* the connection attempt of a probe ends *)
ConnectDone(h, out) ==
    /\ Scanning /\ AllStarted(scan)
    /\ h \in Hosts(scan)
    /\ scan.host[h].pc = "connecting"
    /\ CASE out = "connected" ->
              /\ h \in Devices
              /\ SetScan([scan EXCEPT !.host[h].pc = "closing",
                                      !.connects = @ \cup {<<h, PortOf(scan, h)>>}])
         [] out = "unexpected" ->
              /\ scan.faults_left > 0
              /\ SetScan(Release([scan EXCEPT !.host[h].pc = "failed",
                                              !.faults_left = @ - 1]))
         [] OTHER -> SetScan(NextPort(scan, h))

(* writer.wait_closed() returns, or raises an OSError *)
CloseDone(h, ok) ==
    /\ Scanning
    /\ h \in Hosts(scan)
    /\ scan.host[h].pc = "closing"
    /\ LET s == [scan EXCEPT !.opened = @ \cup {<<h, PortOf(scan, h)>>}]
       IN  IF ~ok
           THEN SetScan(NextPort(scan, h))
           ELSE IF Verifies(scan, h)
           THEN SetScan(Logged([s EXCEPT !.host[h].pc = "verify_connect"],
                               h, "called", "None"))
           ELSE SetScan(Found(s, h, Unprobed(scan, h)))

(* transport.connect() of _verify_modbus returns or raises *)
VerifyConnect(h, ok) ==
    /\ Scanning
    /\ h \in Hosts(scan)
    /\ scan.host[h].pc = "verify_connect"
    /\ IF ok
       THEN SetScan(Logged([scan EXCEPT !.host[h].pc = "discovering",
                                        !.host[h].verify_connected = @ + 1],
                           h, "connect_ok", "None"))
       ELSE SetScan(Found(Logged(scan, h, "connect_failed", "None"), h,
                          VerifyFailed(scan, h, ConnectError)))

DiscoveryOutcomes == {"PV_SERIES", "9999", "error"}

(* the transport is disconnected only when discovery has returned *)
DisconnectAfterSuccess(s, h, out) ==
    IF out = "error"
    THEN Found(s, h, VerifyFailed(s, h, DiscoveryError))
    ELSE [s EXCEPT !.host[h].pc = "disconnecting", !.host[h].info = out]

(* try: info = await discover_device_info(transport)                       *)
(* finally: await transport.disconnect()                                   *)
DiscoverFinally(s, h, out) ==
    [s EXCEPT !.host[h].pc = "disconnecting", !.host[h].info = out]

(* discover_device_info returns the device's code or raises; the finally   *)
(* clause then awaits transport.disconnect()                               *)
Discovered(h, out) ==
    /\ Scanning
    /\ h \in Hosts(scan)
    /\ scan.host[h].pc = "discovering"
    /\ SetScan(IF out = "error"
               THEN DiscoverFinally(Logged(scan, h, "discovery_failed", "None"),
                                    h, out)
               ELSE DiscoverFinally(Logged(scan, h, "discovered", out), h, out))

(* transport.disconnect() returns or raises *)
Disconnected(h, ok) ==
    /\ Scanning
    /\ h \in Hosts(scan)
    /\ scan.host[h].pc = "disconnecting"
    /\ LET info == scan.host[h].info
           s == [scan EXCEPT !.host[h].disconnects = @ + 1]
       IN  IF ~ok
           THEN SetScan(Found(Logged(s, h, "disconnect_failed", "None"), h,
                              VerifyFailed(s, h, DisconnectError)))
           ELSE IF info = "error"
           THEN SetScan(Found(s, h, VerifyFailed(s, h, DiscoveryError)))
           ELSE SetScan(Found(s, h, Verified(s, h, info)))

(* the sleep of scan() ends: the tasks that are done leave pending_tasks,  *)
(* their exceptions are looked at, and the queue is drained                *)
ScanWake ==
    /\ scan.pc = "sleeping"
    /\ AllStarted(scan)
    /\ LET newly_done == {h \in scan.pending_tasks :
                             scan.host[h].pc \in {"done", "failed"}}
           s1 == TaskExceptions([scan EXCEPT !.pending_tasks = @ \ newly_done],
                                newly_done)
       IN  IF s1.pc = "raised" THEN SetScan(s1) ELSE SetScan(DrainResults(s1))

(* the consumer asks for the next result *)
ScanResume ==
    /\ scan.pc = "yielded"
    /\ SetScan(DrainResults(scan))

(* the caller calls scanner.cancel() while the scan runs: NetworkScanner   *)
(* has no such method, the call raises AttributeError in the caller and    *)
(* the scan goes on                                                        *)
CancelCall ==
    /\ Scanning
    /\ ~scan.cancel_called
    /\ SetScan([scan EXCEPT !.cancel_called = TRUE])

ScanInit ==
    /\ InitTransport
    /\ tracing = FALSE
    /\ callers = {}
    /\ budget = 0

ScanNext ==
    \/ \E cfg \in ScanConfigs : StartScan(cfg)
    \/ \E h \in 1..MaxHosts : TaskStart(h)
    \/ \E h \in 1..MaxHosts : TaskResume(h)
    \/ \E h \in 1..MaxHosts : \E out \in ConnectOutcomes : ConnectDone(h, out)
    \/ \E h \in 1..MaxHosts : \E ok \in BOOLEAN : CloseDone(h, ok)
    \/ \E h \in 1..MaxHosts : \E ok \in BOOLEAN : VerifyConnect(h, ok)
    \/ \E h \in 1..MaxHosts : \E out \in DiscoveryOutcomes : Discovered(h, out)
    \/ \E h \in 1..MaxHosts : \E ok \in BOOLEAN : Disconnected(h, ok)
    \/ ScanWake
    \/ ScanResume
    \/ CancelCall

ScanSpec == ScanInit /\ [][ScanNext]_vars

(* every probe ends (the connect within its timeout), the event loop runs  *)
(* every task that is ready, and the consumer keeps asking for results     *)
ScanFairSpec == ScanSpec /\ WF_vars(ScanNext)

-----------------------------------------------------------------------------
(* Properties of the scanner *)

(* the hosts whose task is inside _probe_port *)
Probing(s) ==
    {h \in Hosts(s) : s.host[h].pc \in {"connecting", "closing", "verify_connect",
                                        "discovering", "disconnecting"}}

(* C21: once cancel() has been called on the scanner, the outstanding      *)
(* probes are aborted: no probe that had not finished produces a result    *)
(* any more and no new probe is started                                    *)
C21_CancelAbortsProbes ==
    [][scan.cancel_called =>
          /\ scan'.found_count = scan.found_count
          /\ \A h \in Hosts(scan) :
                 scan'.host[h].pc = "connecting" =>
                     /\ scan.host[h].pc = "connecting"
                     /\ scan'.host[h].port_no = scan.host[h].port_no]_vars

(* C22: during a scan the number of probes in flight (tasks between the    *)
(* start of a connection attempt and the return of _probe_port) never      *)
(* exceeds config.concurrency                                              *)
C22_ProbesBounded ==
    Scanning => Cardinality(Probing(scan)) <= scan.config.concurrency

(* as many probes in flight as permits, with further hosts waiting *)
C22_Witness ==
    /\ Scanning
    /\ scan.config.concurrency = 2
    /\ Cardinality(Probing(scan)) = 2
    /\ scan.waiters # <<>>

(* how many of the results yielded are for the pair (ip, port) *)
YieldedFor(s, ip, port) ==
    Cardinality({i \in 1..Len(s.yielded) :
                    s.yielded[i].ip = ip /\ s.yielded[i].port = port})

(* C23: a completed scan has yielded exactly one result for every (host,   *)
(* port) pair whose TCP connect succeeded within the timeout, and none for *)
(* any other pair                                                          *)
C23_OneResultPerOpenPair ==
    scan.pc = "done" =>
        \A h \in Hosts(scan) : \A n \in 1..Len(scan.config.ports) :
            LET port == scan.config.ports[n]
            IN  YieldedFor(scan, h, port) =
                    IF <<h, port>> \in scan.connects THEN 1 ELSE 0

Results(s) ==
    {s.yielded[i] : i \in 1..Len(s.yielded)}
    \cup {s.results_queue[i] : i \in 1..Len(s.results_queue)}

(* whether event is logged for the pair of result r *)
Happened(s, r, event, code) ==
    [ip |-> r.ip, port |-> r.port, event |-> event, code |-> code]
        \in s.verify_log

UnknownCodes == (DiscoveryOutcomes \ {"error"}) \ known_codes

ResultsFor(s, p) == {r \in Results(s) : r.ip = p[1] /\ r.port = p[2]}

C27_ProgressMonotone ==
    LET progress == scan.progress
    IN  /\ \A i \in 1..Len(progress) :
              /\ progress[i].total_hosts = scan.config.hosts
              /\ progress[i].scanned <= progress[i].total_hosts
              /\ \A j \in i..Len(progress) :
                     progress[i].scanned <= progress[j].scanned
        /\ (scan.pc = "done" /\ scan.config.progress_callback
            /\ scan.config.hosts > 0) =>
              /\ progress # <<>>
              /\ progress[Len(progress)].scanned = scan.config.hosts
              /\ progress[Len(progress)].found = Len(scan.yielded)

(* a completed scan of 12 hosts with an update after the tenth host, the   *)
(* final update, and a device found                                        *)
C27_Witness ==
    /\ scan.pc = "done"
    /\ Len(scan.progress) = 2
    /\ scan.progress[1].scanned = ProgressEvery
    /\ scan.progress[2].scanned > ProgressEvery
    /\ scan.progress[2].found > 0
    /\ scan.progress[2].found = Len(scan.yielded)

-----------------------------------------------------------------------------
(* Cloud client: an endpoint call, the session lifecycle and the backoff.  *)
(* A step is the start of a call or the end of one HTTP exchange (a login  *)
(* or a request), with everything the client does before it awaits again.  *)

SetCloud(c) ==
    cloud' = c /\ UNCHANGED <<transport_vars, scan, decode, inverter>>

WriteParameterTwice == <<"_ensure_authenticated", "_request", "_request">>

(* ControlEndpoints.write_parameter: the client calls it makes *)
WriteParameter == <<"_ensure_authenticated", "_request">>

(* the backoff delay is applied and the exchange is sent *)
Exchange(c, kind) ==
    [c EXCEPT !.pc = kind, !.trace = Append(@, kind),
              !.waited = c.current_backoff_delay]

(* an exchange succeeded: the counter and the delay are reset *)
RequestSuccess(c) ==
    [c EXCEPT !.consecutive_errors = 0, !.current_backoff_delay = 0,
              !.answered = @ + 1, !.last = "ok"]

RequestErrorUncapped(c) ==
    [c EXCEPT !.consecutive_errors = @ + 1,
              !.current_backoff_delay =
                  BackoffBase * Pow2(c.consecutive_errors + 1),
              !.answered = @ + 1, !.last = "failed"]

(* an exchange failed: the counter rises and the delay is set from it *)
RequestError(c) ==
    [c EXCEPT !.consecutive_errors = @ + 1,
              !.current_backoff_delay =
                  Min(BackoffCap, BackoffBase * Pow2(c.consecutive_errors + 1)),
              !.answered = @ + 1, !.last = "failed"]

CloudFinish(c, result) ==
    [c EXCEPT !.pc = "idle", !.steps = <<>>, !.result = result]

(* client._request: the request is sent *)
SendRequest(c) == Exchange(c, "request")

(* the client call in progress returned: the endpoint makes its next call, *)
(* a _request, or returns                                                  *)
Continue(c) ==
    IF Tail(c.steps) = <<>>
    THEN CloudFinish(c, "ok")
    ELSE SendRequest([c EXCEPT !.steps = Tail(@)])

(* client._ensure_authenticated: logs in unless the session is live *)
EnsureAuthenticated(c) ==
    IF c.session = "logged_in"
    THEN Continue(c)
    ELSE Exchange(c, IF c.session = "fresh" THEN "login" ELSE "relogin")

Relogins(c) ==
    Cardinality({i \in 1..Len(c.trace) : c.trace[i] = "relogin"})

Requests(c) ==
    Cardinality({i \in 1..Len(c.trace) : c.trace[i] = "request"})

ExchangeOutcomes == {"ok", "auth_error", "transport_error"}

(* an exchange may fail while the error counter is below its bound *)
MayEnd(out) == out = "ok" \/ cloud.consecutive_errors < MaxCloudErrors

(* an endpoint is called *)
CloudCall ==
    /\ cloud.pc = "idle"
    /\ cloud.calls_left > 0
    /\ cloud.session # "fatal"
    /\ SetCloud(EnsureAuthenticated(
           [cloud EXCEPT !.steps = WriteParameter, !.trace = <<>>,
                         !.expired_at_call = (cloud.session = "expired"),
                         !.result = "none", !.calls_left = @ - 1]))

(* the session's TTL passes between two calls *)
Expire ==
    /\ cloud.pc = "idle"
    /\ cloud.session = "logged_in"
    /\ SetCloud([cloud EXCEPT !.session = "expired"])

(* the login of _ensure_authenticated, or the re-login it or a rejected    *)
(* request started, ends                                                   *)
LoginDone(out) ==
    /\ cloud.pc \in {"login", "relogin"}
    /\ MayEnd(out)
    /\ CASE out = "ok" ->
              LET c == RequestSuccess([cloud EXCEPT !.session = "logged_in"])
              IN  IF Head(c.steps) = "_request"
                  THEN SetCloud(SendRequest(c))
                  ELSE SetCloud(Continue(c))
         [] out = "auth_error" ->
              SetCloud(CloudFinish(
                  RequestError([cloud EXCEPT !.session =
                                    IF cloud.pc = "relogin" THEN "fatal" ELSE @]),
                  "AuthError"))
         [] OTHER ->
              SetCloud(CloudFinish(RequestError(cloud), "ConnectionError"))

(* the response to a request arrives *)
RequestDone(out) ==
    /\ cloud.pc = "request"
    /\ MayEnd(out)
    /\ CASE out = "ok" -> SetCloud(Continue(RequestSuccess(cloud)))
         [] out = "auth_error" ->
              LET c == RequestError(cloud)
              IN  IF Relogins(c) = 0
                  THEN SetCloud(Exchange([c EXCEPT !.session = "auth_lost"],
                                         "relogin"))
                  ELSE SetCloud(CloudFinish([c EXCEPT !.session = "fatal"],
                                            "AuthError"))
         [] OTHER ->
              SetCloud(CloudFinish(RequestError(cloud), "ConnectionError"))

CloudInit ==
    /\ InitTransport
    /\ tracing = FALSE
    /\ callers = {}
    /\ budget = 0

CloudNext ==
    \/ CloudCall
    \/ Expire
    \/ \E out \in ExchangeOutcomes : LoginDone(out)
    \/ \E out \in ExchangeOutcomes : RequestDone(out)

CloudSpec == CloudInit /\ [][CloudNext]_vars

-----------------------------------------------------------------------------
(* Properties of the cloud client *)

(* the call in progress, or the last one, met an expired session or an     *)
(* authentication error                                                    *)
SessionLost(c) == Relogins(c) > 0

(* C28: a call makes at most one re-login and at most two requests; a      *)
(* second request is the retry that directly follows the re-login; a call  *)
(* that met an expired session or an authentication error and succeeded    *)
(* ends with exactly one re-login directly followed by its last request;   *)
(* once authentication has failed again the error surfaces and nothing     *)
(* more is sent                                                            *)
C28_OneReloginOneRetry ==
    LET c == cloud
        trace == c.trace
    IN  /\ Relogins(c) <= 1
        /\ Requests(c) <= 2
        /\ \A i \in 2..Len(trace) :
               (trace[i] = "request" /\ \E j \in 1..(i - 1) : trace[j] = "request")
                   => trace[i - 1] = "relogin"
        /\ (c.pc = "idle" /\ c.result = "ok" /\ SessionLost(c)) =>
               /\ Relogins(c) = 1
               /\ Len(trace) >= 2
               /\ trace[Len(trace)] = "request"
               /\ trace[Len(trace) - 1] = "relogin"
        /\ (c.pc = "idle" /\ c.result = "ok" /\ ~SessionLost(c)) =>
               Requests(c) = 1
        /\ c.session = "fatal" =>
               /\ c.pc = "idle"
               /\ c.result = "AuthError"
               /\ Relogins(c) = 1

(* a call that was answered by an authentication error, logged in again    *)
(* and succeeded with its retry                                            *)
C28_Witness ==
    /\ cloud.pc = "idle"
    /\ cloud.result = "ok"
    /\ cloud.trace = <<"request", "relogin", "request">>
    /\ cloud.session = "logged_in"

(* min(cap, base * 2^n) for a counter value n > 0, and zero for n = 0 *)
ClaimedDelay(n) ==
    IF n = 0 THEN 0
    ELSE IF BackoffBase * Pow2(n) < BackoffCap THEN BackoffBase * Pow2(n)
    ELSE BackoffCap

(* C29: the counter of consecutive errors starts at 0, rises by one with   *)
(* every exchange that fails and returns to 0 with every exchange that     *)
(* succeeds; the delay applied before an exchange is min(cap, base * 2^n)  *)
(* for the counter value n > 0 at that time, and zero for n = 0            *)
C29_BackoffFollowsCounter ==
    /\ [](/\ cloud.answered = 0 => cloud.consecutive_errors = 0
          /\ cloud.current_backoff_delay =
                 ClaimedDelay(cloud.consecutive_errors)
          /\ cloud.pc # "idle" =>
                 cloud.waited = ClaimedDelay(cloud.consecutive_errors))
    /\ [][IF cloud'.answered = cloud.answered
          THEN cloud'.consecutive_errors = cloud.consecutive_errors
          ELSE IF cloud'.last = "ok"
          THEN cloud'.consecutive_errors = 0
          ELSE cloud'.consecutive_errors = cloud.consecutive_errors + 1]_vars

(* a request sent after the capped delay, and answered *)
C29_Witness ==
    /\ cloud.waited = BackoffCap
    /\ cloud.consecutive_errors = 0
    /\ cloud.last = "ok"
    /\ cloud.trace # <<>>

-----------------------------------------------------------------------------
(* Decoder: signedness and scale of one 16-bit field.  The value decoded   *)
(* is kept as the fraction num / den.                                      *)

SetDecode(d) ==
    decode' = d /\ UNCHANGED <<transport_vars, scan, cloud, inverter>>

(* the raw words the model feeds to the decoder *)
RawWords ==
    (0..RawSpan)
    \cup ((Pow2(WordBits - 1) - RawSpan)..(Pow2(WordBits - 1) + RawSpan))
    \cup ((Pow2(WordBits) - 1 - RawSpan)..(Pow2(WordBits) - 1))

(* the scales of the register map: raw, /10 and /100 *)
Divisors == {1, 10, 100}

(* bit i of the word r *)
Bit(r, i) == (r \div Pow2(i)) % 2

(* the number the i lowest bits of r stand for *)
RECURSIVE LowBits(_, _)
LowBits(r, i) ==
    IF i = 0 THEN 0
    ELSE LowBits(r, i - 1) + Bit(r, i - 1) * Pow2(i - 1)

(* a word declared unsigned: all 16 bits weigh positive *)
Unsigned(r) == LowBits(r, WordBits)

(* a word declared signed: two's complement, the top bit weighs -2^15 *)
Signed(r) ==
    LowBits(r, WordBits - 1) - Bit(r, WordBits - 1) * Pow2(WordBits - 1)

ScaleThenSign(r, signed, divisor) ==
    [num |-> IF signed /\ Unsigned(r) >= Pow2(WordBits - 1) * divisor
             THEN Unsigned(r) - Pow2(WordBits) * divisor
             ELSE Unsigned(r),
     den |-> divisor]

(* the decoder's pipeline for one field: signedness, then scale *)
DecodeField(r, signed, divisor) ==
    [num |-> IF signed THEN Signed(r) ELSE Unsigned(r), den |-> divisor]

(* a register of a field arrives from a read *)
TakeWord(r, signed, divisor) ==
    /\ decode.pc \in {"idle", "decoded", "decoded32"}
    /\ SetDecode([DecodeIdle EXCEPT !.pc = "raw", !.r = r, !.signed = signed,
                                    !.divisor = divisor])

(* the decoder decodes the field *)
DecodeWord ==
    /\ decode.pc = "raw"
    /\ SetDecode([decode EXCEPT !.pc = "decoded",
                                !.value = DecodeField(decode.r, decode.signed,
                                                      decode.divisor)])

(* the words a register of the maps fed to the decoder holds; with the     *)
(* largest as high word the 32-bit value stays below 2^31                  *)
PairWords == {0, 1, Pow2(WordBits - 1) - 1}

(* the raw register maps: any subset of the addresses may be missing *)
RawRegisters ==
    UNION {[S -> PairWords] : S \in SUBSET (0..MaxRegAddr)}

(* the addresses of the 32-bit fields of the map *)
PairAddresses == 0..(MaxRegAddr - 1)

LowWordAlone(R, A, divisor) ==
    IF A \in DOMAIN R
    THEN {[num |-> R[A] + (IF A + 1 \in DOMAIN R
                           THEN Pow2(WordBits) * R[A + 1] ELSE 0),
           den |-> divisor]}
    ELSE {}

(* a 32-bit field at address A: the low word is R[A], the high word        *)
(* R[A + 1]; None unless both are in the map                               *)
DecodeField32(R, A, divisor) ==
    IF A \in DOMAIN R /\ A + 1 \in DOMAIN R
    THEN {[num |-> R[A] + Pow2(WordBits) * R[A + 1], den |-> divisor]}
    ELSE {}

(* a register map arrives from a read, for a 32-bit field at address A *)
TakeRegisters(R, A, divisor) ==
    /\ decode.pc \in {"idle", "decoded", "decoded32"}
    /\ SetDecode([DecodeIdle EXCEPT !.pc = "raw32", !.registers = R,
                                    !.address = A, !.divisor = divisor])

(* the decoder decodes the 32-bit field *)
DecodePair ==
    /\ decode.pc = "raw32"
    /\ SetDecode([decode EXCEPT !.pc = "decoded32",
                                !.value32 = DecodeField32(decode.registers,
                                                          decode.address,
                                                          decode.divisor)])

DecodeInit ==
    /\ InitTransport
    /\ tracing = FALSE
    /\ callers = {}
    /\ budget = 0

DecodeNext ==
    \/ \E r \in RawWords : \E signed \in BOOLEAN : \E divisor \in Divisors :
          TakeWord(r, signed, divisor)
    \/ DecodeWord
    \/ \E R \in RawRegisters : \E A \in PairAddresses :
          \E divisor \in Divisors : TakeRegisters(R, A, divisor)
    \/ DecodePair

DecodeSpec == DecodeInit /\ [][DecodeNext]_vars

(* C30: a raw word r of a field declared signed is decoded as r when       *)
(* r < 32768 and as r - 65536 otherwise, and that value is then scaled; a  *)
(* word of a field declared unsigned is decoded as r                       *)
C30_SignedConversion ==
    decode.pc = "decoded" =>
        /\ decode.value.den = decode.divisor
        /\ decode.value.num =
               IF decode.signed /\ decode.r >= 32768
               THEN decode.r - 65536
               ELSE decode.r

(* the signed word 0xFFFE with scale /10 decoded as -0.2 *)
C30_Witness ==
    /\ decode.pc = "decoded"
    /\ decode.signed
    /\ decode.r = 65534
    /\ decode.divisor = 10
    /\ decode.value = [num |-> -2, den |-> 10]

(* C31: a 32-bit field at address A is decoded as None unless both the low *)
(* word at A and the high word at A + 1 are in the register map; with both *)
(* present it is the value high * 65536 + low, scaled; decoding always     *)
(* yields one of the two and never a value made of one word alone          *)
C31_BothWordsOrNone ==
    decode.pc = "decoded32" =>
        LET R == decode.registers
            A == decode.address
        IN  IF {A, A + 1} \subseteq DOMAIN R
            THEN decode.value32 =
                     {[num |-> R[A + 1] * 65536 + R[A], den |-> decode.divisor]}
            ELSE decode.value32 = {}

(* a map that holds the low word of the field and lacks its high word,     *)
(* decoded as None                                                         *)
C31_Witness ==
    /\ decode.pc = "decoded32"
    /\ decode.address \in DOMAIN decode.registers
    /\ decode.address + 1 \notin DOMAIN decode.registers
    /\ decode.registers[decode.address] = 32767
    /\ decode.value32 = {}

-----------------------------------------------------------------------------
(* parse_ip_range: the first statement of NetworkScanner.scan().  An IPv4  *)
(* address a.b.c.d is kept as its first octet and the number b.c.d stands  *)
(* for, so that every block of prefix length 8 or more lies within one     *)
(* first octet.  Under RangeSpec the variable scan holds the range given   *)
(* and the value parse_ip_range returned for it.                           *)

(* Bound: the prefix lengths tried are 32 - PrefixSpan .. 32 *)
PrefixSpan == 16

MAX_SAFE_HOSTS == 4094

Address(a, b, c, d) == [octet |-> a, low |-> (b * 256 + c) * 256 + d]

Cidr(address, p) == [address |-> address, prefix |-> p]

(* the number of addresses of a block of prefix length p *)
BlockSize(p) == Pow2(32 - p)

BlockAddresses ==
    {Address(192, 168, 0, 0), Address(192, 168, 1, 0),
     Address(192, 168, 1, 50), Address(10, 0, 0, 0), Address(172, 16, 0, 0),
     Address(100, 64, 0, 0), Address(8, 8, 8, 0)}

(* the blocks given to parse_ip_range: those whose address has no host bit *)
(* set; the two-address blocks (/31) are left out                          *)
CidrRanges ==
    {r \in {Cidr(ad, p) : ad \in BlockAddresses,
                          p \in ((32 - PrefixSpan)..32) \ {31}} :
        r.address.low % BlockSize(r.prefix) = 0}

(* RFC 1918 and the carrier-grade NAT range 100.64.0.0/10 *)
PrivateAddress(a, low) ==
    \/ a = 10
    \/ a = 172 /\ low \div Pow2(20) = 1
    \/ a = 192 /\ low \div Pow2(16) = 168
    \/ a = 100 /\ low \div Pow2(22) = 1

(* a block is private when it lies within one of the private ranges *)
PrivateBlock(r) ==
    /\ PrivateAddress(r.address.octet, r.address.low)
    /\ PrivateAddress(r.address.octet, r.address.low + BlockSize(r.prefix) - 1)
    /\ r.prefix >= (CASE r.address.octet = 10  -> 8
                      [] r.address.octet = 172 -> 12
                      [] r.address.octet = 192 -> 16
                      [] OTHER                 -> 10)

HostsWithEnds(r) ==
    r.address.low..(r.address.low + BlockSize(r.prefix) - 1)

(* the usable hosts of a block: network and broadcast address are left    *)
(* out of a block of four addresses or more; a /32 keeps its one address   *)
CidrHosts(r) ==
    IF r.prefix = 32
    THEN {r.address.low}
    ELSE (r.address.low + 1)..(r.address.low + BlockSize(r.prefix) - 2)

(* the number of hosts the block gives, compared with the cap *)
HostCount(r) ==
    IF r.prefix = 32 THEN 1 ELSE BlockSize(r.prefix) - 2

NoHosts == [error |-> "none", octet |-> 0, hosts |-> {}]

(* parse_ip_range(ip_range) for a CIDR block: the list of its hosts, or   *)
(* ValueError                                                              *)
parse_ip_range(r) ==
    IF ~PrivateBlock(r) \/ HostCount(r) > MAX_SAFE_HOSTS
    THEN [NoHosts EXCEPT !.error = "ValueError"]
    ELSE [NoHosts EXCEPT !.octet = r.address.octet, !.hosts = CidrHosts(r)]

RangeIdle ==
    [pc |-> "idle",                     \* idle | given | parsed
     ip_range |-> Cidr(Address(0, 0, 0, 0), 32),
     hosts |-> NoHosts]

(* a scanner is configured with a range *)
GiveRange(r) ==
    /\ scan.pc \in {"idle", "parsed"}
    /\ scan' = [RangeIdle EXCEPT !.pc = "given", !.ip_range = r]
    /\ UNCHANGED <<transport_vars, cloud, decode, inverter>>

(* hosts = parse_ip_range(self._config.ip_range) *)
ParseRange ==
    /\ scan.pc = "given"
    /\ scan' = [scan EXCEPT !.pc = "parsed",
                            !.hosts = parse_ip_range(scan.ip_range)]
    /\ UNCHANGED <<transport_vars, cloud, decode, inverter>>

RangeInit ==
    /\ connected = FALSE
    /\ lock = NoTask
    /\ consecutive_errors = 0
    /\ last_read_retried = FALSE
    /\ task = [t \in Tasks |-> IdleTask]
    /\ wire = <<>>
    /\ seq_started = 0
    /\ seq_completed = 0
    /\ orphans = 0
    /\ tracing = FALSE
    /\ callers = {}
    /\ budget = 0
    /\ scan = RangeIdle
    /\ cloud = CloudIdle
    /\ decode = DecodeIdle
    /\ inverter = InverterIdle

RangeNext ==
    \/ \E r \in CidrRanges : GiveRange(r)
    \/ ParseRange

RangeSpec == RangeInit /\ [][RangeNext]_vars

(* the addresses of a block without its network and broadcast address *)
WithoutEnds(r) ==
    HostsWithEnds(r)
        \ {r.address.low, r.address.low + BlockSize(r.prefix) - 1}

(* C32 as stated: every private block gives exactly its addresses without  *)
(* the network and the broadcast address when these are at most 4094, and  *)
(* an error when they are more                                             *)
C32_CidrHostsOrError ==
    (scan.pc = "parsed" /\ PrivateBlock(scan.ip_range)) =>
        IF BlockSize(scan.ip_range.prefix) - 2 <= MAX_SAFE_HOSTS
        THEN /\ scan.hosts.error = "none"
             /\ scan.hosts.octet = scan.ip_range.address.octet
             /\ scan.hosts.hosts = WithoutEnds(scan.ip_range)
        ELSE scan.hosts.error = "ValueError"

(* C32, amended: every private block of prefix length 30 or less gives     *)
(* exactly its addresses without the network and the broadcast address     *)
(* when these are at most 4094 (254 for a /24, 4094 for a /20) and an      *)
(* error when they are more (a /19, a /16); a /32 gives its one address    *)
C32_CidrHostsOrErrorUpTo30 ==
    (scan.pc = "parsed" /\ PrivateBlock(scan.ip_range)) =>
        LET r == scan.ip_range
        IN  /\ (r.prefix <= 30 /\ BlockSize(r.prefix) - 2 <= MAX_SAFE_HOSTS) =>
                  /\ scan.hosts.error = "none"
                  /\ scan.hosts.octet = r.address.octet
                  /\ scan.hosts.hosts = WithoutEnds(r)
                  /\ Cardinality(scan.hosts.hosts) = BlockSize(r.prefix) - 2
            /\ BlockSize(r.prefix) - 2 > MAX_SAFE_HOSTS =>
                  scan.hosts.error = "ValueError"
            /\ r.prefix = 32 =>
                  /\ scan.hosts.error = "none"
                  /\ scan.hosts.hosts = {r.address.low}

(* 192.168.0.0/20 parsed into its 4094 hosts *)
C32_Witness ==
    /\ scan.pc = "parsed"
    /\ scan.ip_range = Cidr(Address(192, 168, 0, 0), 20)
    /\ scan.hosts.error = "none"
    /\ Cardinality(scan.hosts.hosts) = 4094

-----------------------------------------------------------------------------
(* Further properties of the Modbus transport *)

(* the reads of the call answered in full so far, by start address *)
ReturnedStarts(tk) == {tk.returned[i][1] : i \in 1..Len(tk.returned)}

(* C33: when both runtime reads of read_battery (0 and 64, 64 words each)  *)
(* have returned, the register map decoded by read_battery holds every     *)
(* address from 0 to 127.                                                  *)
C33_BatteryWindowsRead ==
    \A t \in callers :
        (/\ tracing /\ ReadBatteryCall(t)
         /\ task[t].pc = "idle" /\ task[t].result \in {"ok", "None"}
         /\ task[t].short_reads = 0
         /\ {0, BatteryChunk} \subseteq ReturnedStarts(task[t]))
        => (0..(2 * BatteryChunk - 1)) \subseteq task[t].registers

-----------------------------------------------------------------------------
(* InverterRuntimePropertiesMixin: the per-leg EPS power of an inverter    *)
(* whose runtime data came from the local transport                        *)

SetInverter(i) ==
    inverter' = i /\ UNCHANGED <<transport_vars, scan, cloud, decode>>

(* the EPS totals, in W, and leg voltages, in V, the transport can deliver *)
EpsPowers == {None, {-7}, {0}, {1}, {7}, {300}}

EpsVoltages == {None, {0}, {120}, {240}}

(* the value of a field that is not None *)
ValueOf(field) == CHOOSE x \in field : TRUE

(* Python's truth value of an optional number: neither None nor zero *)
Truthy(field) == field # None /\ field # {0}

(* int(n / d) for d > 0: the quotient rounded towards zero *)
IntOfQuotient(n, d) == IF n >= 0 THEN n \div d ELSE -((-n) \div d)

_compute_eps_leg_power(i, leg) ==
    IF i.eps_power = None
    THEN 0
    ELSE LET total == ValueOf(i.eps_power)
             v_l1 == i.eps_l1_voltage
             v_l2 == i.eps_l2_voltage
         IN  IF Truthy(v_l1) /\ Truthy(v_l2)
                /\ ValueOf(v_l1) + ValueOf(v_l2) > 0
             THEN LET v_sum == ValueOf(v_l1) + ValueOf(v_l2)
                  IN  IF leg = "l1"
                      THEN IntOfQuotient(total * ValueOf(v_l1), v_sum)
                      ELSE IntOfQuotient(total * ValueOf(v_l2), v_sum)
             ELSE IF leg = "l1"
             THEN IF Truthy(v_l2) THEN IntOfQuotient(total, 2) ELSE total
             ELSE IF Truthy(v_l1) THEN IntOfQuotient(total, 2) ELSE total

(* the inverter is refreshed: _transport_runtime holds new runtime data *)
Refresh(eps_power, v_l1, v_l2) ==
    SetInverter([InverterIdle EXCEPT !.pc = "refreshed",
                                     !.eps_power = eps_power,
                                     !.eps_l1_voltage = v_l1,
                                     !.eps_l2_voltage = v_l2])

(* property eps_power_l1 is read *)
eps_power_l1 ==
    /\ inverter.pc = "refreshed"
    /\ inverter.eps_power_l1 = None
    /\ SetInverter([inverter EXCEPT
                       !.eps_power_l1 = {_compute_eps_leg_power(inverter, "l1")}])

(* property eps_power_l2 is read *)
eps_power_l2 ==
    /\ inverter.pc = "refreshed"
    /\ inverter.eps_power_l2 = None
    /\ SetInverter([inverter EXCEPT
                       !.eps_power_l2 = {_compute_eps_leg_power(inverter, "l2")}])

InverterInit ==
    /\ InitTransport
    /\ tracing = FALSE
    /\ callers = {}
    /\ budget = 0

InverterNext ==
    \/ \E eps_power \in EpsPowers : \E v_l1 \in EpsVoltages :
          \E v_l2 \in EpsVoltages : Refresh(eps_power, v_l1, v_l2)
    \/ eps_power_l1
    \/ eps_power_l2

InverterSpec == InverterInit /\ [][InverterNext]_vars

(* C34: with an EPS total and exactly one of the two leg voltages present, *)
(* the leg whose voltage is present is given the whole total and the other *)
(* leg zero                                                                *)
C34_SingleLegTakesAll ==
    (/\ inverter.eps_power # None
     /\ inverter.eps_power_l1 # None
     /\ inverter.eps_power_l2 # None
     /\ Truthy(inverter.eps_l1_voltage) # Truthy(inverter.eps_l2_voltage))
    => IF Truthy(inverter.eps_l1_voltage)
       THEN /\ inverter.eps_power_l1 = inverter.eps_power
            /\ inverter.eps_power_l2 = {0}
       ELSE /\ inverter.eps_power_l2 = inverter.eps_power
            /\ inverter.eps_power_l1 = {0}

(* C35: the counter of consecutive errors changes only when a read attempt *)
(* is answered or a reconnect completes: an attempt that succeeds sets it  *)
(* to 0, an attempt that fails (a retried one included) adds exactly 1, a  *)
(* completed reconnect sets it to 0, and nothing else changes it, writes   *)
(* included; starting from 0 it is therefore the number of failed attempts *)
(* since the last successful attempt or completed reconnect.               *)
C35_CounterCountsFailedAttempts ==
    [][tracing =>
        \A t \in callers :
            LET tk == task[t]
                tk2 == task'[t]
                answered == /\ tk.pc = "rd_inflight"
                            /\ tk2 # tk
                            /\ tk2.result # "CancelledError"
                reconnected == tk.pc = "rc_connect" /\ tk2.pc = "phase"
            IN  IF answered
                THEN IF Len(tk2.returned) = Len(tk.returned) + 1
                     THEN consecutive_errors' = 0
                     ELSE consecutive_errors' = consecutive_errors + 1
                ELSE IF reconnected
                THEN consecutive_errors' = 0
                ELSE consecutive_errors' = consecutive_errors]_vars

(* a write has failed after three failed read attempts and has left the   *)
(* counter at 3                                                            *)
C35_Witness ==
    /\ tracing
    /\ task[1].op = "write_parameters"
    /\ task[1].pc = "idle"
    /\ task[1].result = "TransportWriteError"
    /\ task[1].sent > 0
    /\ consecutive_errors = Retries + 1

(* read_energy has returned a record without the bms_data registers: both  *)
(* primary groups were read and the supplementary read was given up        *)
EnergyWithoutBms(tk) ==
    /\ tracing
    /\ tk.op = "read_energy"
    /\ tk.pc = "idle"
    /\ tk.result = "ok"
    /\ Len(tk.returned) = 2

(* the operations that test the counter before they read *)
CheckedReads == {"read_runtime", "read_energy", "read_battery"}

(* C36: when the bms_data read of read_energy has failed on all R + 1      *)
(* attempts, read_energy returns a record and leaves the counter at R + 1, *)
(* which with R = 2 is the threshold N = 3; the next read_runtime,         *)
(* read_energy or read_battery then awaits _reconnect before it sends a    *)
(* request: the lock is taken, the transport disconnected and connected    *)
(* again, and its first request goes out with the counter below N.         *)
C36_SwallowedFailureForcesReconnect ==
    /\ [](\A t \in callers :
            /\ EnergyWithoutBms(task[t])
                  => /\ consecutive_errors = Retries + 1
                     /\ consecutive_errors >= MaxConsecutiveErrors
            /\ (/\ tracing /\ task[t].op \in CheckedReads
                /\ task[t].pc = "rd_inflight" /\ task[t].phase_no = 1
                /\ task[t].idx = 1 /\ task[t].attempt = 0)
                  => consecutive_errors < MaxConsecutiveErrors)
    /\ [][\A t \in callers :
            /\ (/\ EnergyWithoutBms(task[t])
                /\ task'[t].pc # "idle"
                /\ task'[t].op \in CheckedReads)
                  => (task'[t].pc = "rc_wait" /\ wire' = <<>>)
            /\ (/\ tracing /\ task[t].pc = "rc_wait" /\ task'[t] # task[t]
                /\ consecutive_errors >= MaxConsecutiveErrors)
                  => (task'[t].pc = "rc_disconnect" /\ lock' = t)
            /\ (tracing /\ task[t].pc = "rc_disconnect" /\ task'[t] # task[t])
                  => (task'[t].pc = "rc_connect" /\ ~connected')
            /\ (tracing /\ task[t].pc = "rc_connect" /\ task'[t] # task[t])
                  => \/ /\ connected' /\ consecutive_errors' = 0
                        /\ task'[t].pc = "phase"
                     \/ /\ task'[t].pc = "idle"
                        /\ task'[t].result = "TransportConnectionError"
                        /\ wire' = <<>>]_vars

(* read_energy has returned its record after three failed bms_data         *)
(* attempts, with the counter at the threshold                             *)
C36_Witness ==
    /\ EnergyWithoutBms(task[1])
    /\ task[1].rd_err # "none"
    /\ (0..30) \subseteq task[1].registers
    /\ consecutive_errors = MaxConsecutiveErrors
    /\ connected
    /\ budget > 0

(* C37: when the write of the i-th run of write_parameters fails, the call *)
(* ends there with that run's error: the frames of the runs 1..i have gone *)
(* out, once each and in order, those of the runs before i having been     *)
(* acknowledged, no frame of a later run and no frame undoing an earlier    *)
(* one is ever sent.                                                       *)
C37_FailedRunEndsWrite ==
    /\ [](\A t \in callers :
            (/\ tracing /\ WriteCall(t) /\ task[t].pc = "idle"
             /\ task[t].result \in {"TransportWriteError",
                                    "TransportTimeoutError"})
            => LET runs == WriteGroups(task[t].parameters)
               IN  /\ Len(wire) >= 1
                   /\ Len(wire) <= Len(runs)
                   /\ \A k \in 1..Len(wire) : wire[k] = WriteFrame(runs[k]))
    /\ [][\A t \in callers :
            (/\ tracing /\ WriteCall(t) /\ task[t].pc = "wr_inflight"
             /\ task'[t] # task[t]
             /\ task'[t].result # "CancelledError"
             /\ task'[t].last_out \in WriteOutcomes \ {"ok"})
            => /\ task'[t].pc = "idle"
               /\ task'[t].result =
                     (IF task'[t].last_out = "timeout"
                      THEN "TransportTimeoutError" ELSE "TransportWriteError")
               /\ wire' = wire
               /\ Len(wire) = task[t].idx
               /\ \A k \in 1..task[t].idx :
                     wire[k] = WriteFrame(task[t].groups[k])]_vars

(* the second of three runs has timed out: two frames have gone out and    *)
(* the call has raised TransportTimeoutError                               *)
C37_Witness ==
    /\ tracing
    /\ WriteCall(1)
    /\ task[1].pc = "idle"
    /\ task[1].result = "TransportTimeoutError"
    /\ task[1].last_out = "timeout"
    /\ Len(WriteGroups(task[1].parameters)) = 3
    /\ Len(wire) = 2

-----------------------------------------------------------------------------
(* The reconnect with a connect() that probes the device's identity.       *)
(* connect() opens the connection, marks the transport connected and reads *)
(* the identity window (holding registers, FC3) through _read_registers,   *)
(* the one register read of the transport, which takes self._lock for     *)
(* every attempt.                                                          *)

(* device type at 19, firmware at 7-10, serial at 115-118 *)
IdentityPhase ==
    Phase(FALSE, FALSE, <<(<<19, 1>>), (<<7, 4>>), (<<115, 4>>)>>,
          "none", "raise")

(* _reconnect: await self.connect(), up to connect()'s first identity      *)
(* read: the task waits for the lock in _read_registers while _reconnect,  *)
(* which called connect(), has not left its async with block               *)
ConnectIdentity(t) ==
    LET tk == task[t]
    IN  /\ tk.pc = "rc_connect"
        /\ connected' = TRUE
        /\ SetTask(t, [tk EXCEPT !.pc = "rd_wait",
                                 !.phases = <<IdentityPhase>> \o @,
                                 !.idx = 1, !.attempt = 0])
        /\ last_read_retried' = FALSE
        /\ UNCHANGED <<lock, consecutive_errors, wire, tracing, callers, scan,
                       cloud, decode, inverter, orphans, budget, seq_started,
                       seq_completed>>

(* two tasks, two calls between them *)
InitReconnect ==
    /\ InitTransport
    /\ tracing = FALSE
    /\ callers = Tasks
    /\ budget = MaxSeqOps

ReconnectNext ==
    \/ Next
    \/ \E t \in Tasks : ConnectIdentity(t)

(* every task that can run is run by the event loop *)
ReconnectFairSpec ==
    InitReconnect /\ [][ReconnectNext]_vars /\ WF_vars(ReconnectNext)

InBatch(tk) == tk.phases # <<>> /\ Head(tk.phases).pace = "adaptive"

(* a task inside _read_registers for a group of its batch: the flag was    *)
(* reset on entry and is read by the batch when the call has returned      *)
InGroupRead(tk) == InBatch(tk) /\ tk.pc \in {"rd_wait", "rd_inflight"}

(* C39: with two batches of group reads on one transport, a step of the    *)
(* other batch leaves alone the retried flag of a batch that is inside its *)
(* own group read, and a batch doubles its wait exactly when its own group *)
(* read needed a retry.                                                    *)
C39_BatchesKeepOwnRetriedFlag ==
    [][\A t, u \in Tasks :
          (t # u /\ InGroupRead(task[t]) /\ InBatch(task[u])) =>
              /\ (task'[t] = task[t] /\ task'[u] # task[u])
                    => last_read_retried' = last_read_retried
              /\ (task[t].pc = "rd_inflight" /\ task'[t].pc = "pace")
                    => (task'[t].current_delay # task[t].current_delay
                          <=> (task[t].attempt > 0
                               /\ task[t].current_delay < MaxDelayMs))]_vars

-----------------------------------------------------------------------------
(* Further properties of the scanner *)

(* the call of _verify_modbus of h's task is between the return of         *)
(* transport.connect() and the end of transport.disconnect()               *)
TransportInUse(s, h) == s.host[h].pc \in {"discovering", "disconnecting"}

(* C40: each verification transport that connected has had its            *)
(* disconnect() awaited to its end exactly once when the result of its     *)
(* probe is produced, whether discovery returned or raised, and none is    *)
(* left without it when the scan has completed.                            *)
C40_VerifyTransportsDisconnected ==
    \A h \in Hosts(scan) :
        LET tk == scan.host[h]
        IN  /\ tk.disconnects =
                  tk.verify_connected - (IF TransportInUse(scan, h) THEN 1 ELSE 0)
            /\ scan.pc = "done" => ~TransportInUse(scan, h)
            /\ \A r \in {scan.results_queue[i] : i \in DOMAIN scan.results_queue}
                         \cup {scan.yielded[i] : i \in DOMAIN scan.yielded} :
                  (r.ip = h /\ r.port = PORT_MODBUS /\ scan.config.verify_modbus
                   /\ [ip |-> h, port |-> PORT_MODBUS, event |-> "connect_ok",
                       code |-> "None"] \in scan.verify_log)
                  => tk.disconnects = 1

C40_Witness ==
    /\ scan.pc = "done"
    /\ \E h \in Hosts(scan) :
          /\ scan.host[h].verify_connected = 1
          /\ scan.host[h].disconnects = 1
          /\ [ip |-> h, port |-> PORT_MODBUS, event |-> "discovery_failed",
              code |-> "None"] \in scan.verify_log
          /\ \E i \in 1..Len(scan.yielded) :
                /\ scan.yielded[i].ip = h
                /\ scan.yielded[i].error = Str(DiscoveryError)
====
